---- MODULE Spec2Model ----
(***************************************************************************)
(* Model of the WhatsApp job filter (main.py): the classification client   *)
(* analyze_job_post, the record deduplicator deduplicate_jobs_for_sheet    *)
(* and the run of main() with its persisted cursor and record store.       *)
(*                                                                         *)
(* Text is a sequence of one-character strings, so that strip(), lower()   *)
(* and the "|" concatenation of the dedup keys are computed, not assumed.  *)
(* A timestamp is a number of minutes (the header formats carry no         *)
(* seconds); isoformat()/strftime() render it as text.                     *)
(***************************************************************************)
EXTENDS Integers, Sequences, FiniteSets, TLC

VARIABLES
    pc,                  \* position of the process under study
    run,                 \* number of runs of main() started so far
    env,                 \* the environment main() reads: [complete, api_key]
    cursorFile,          \* content of data/last_processed.json
    sheet,               \* the worksheet: a sequence of rows of cells
    last_processed,      \* main(): the loaded cursor, [some, ts]
    all_messages,        \* main(): what get_all_messages returned
    messages_to_analyze, \* main(): the filtered set
    idx,                 \* main(): position of the classification loop
    relevant_jobs,       \* main(): the batch of relevant records
    unique_jobs,         \* main(): the batch after record dedup
    a_in,                \* analyze_job_post: its inputs
    a_out,               \* analyze_job_post: its outcome
    hist,                \* what the run did so far (observation only)
    dedup_out,           \* deduplicate_messages: what it returned
    dedup_again,         \* deduplicate_messages: what it returned for its own output
    header,              \* parse_pre_plain_text: the header text and what it was built from
    parsed,              \* parse_pre_plain_text: its outcome
    raw_messages,        \* scrape_messages: the nodes of the viewport
    parsed_messages,     \* scrape_messages: its outcome
    page,                \* scrape_all_loaded_messages: the live transcript view
    loop,                \* scrape_all_loaded_messages: its local variables
    sentTrackerFile,     \* content of data/sent_company_emails.json
    outreach,            \* company_outreach.main: the locals of each execution
    outbox,              \* the outreach emails delivered so far (observation only)
    watcher              \* sheet_update_mail_trigger.main: its locals and state file

\* The variables of main() and of the operations on records and classifications.
runVars == << run, env, cursorFile, sheet, last_processed, all_messages,
              messages_to_analyze, idx, relevant_jobs, unique_jobs, a_in, a_out, hist >>

\* The variables of the operations on messages, headers and the transcript view.
scrapeVars == << dedup_out, dedup_again, header, parsed,
                 raw_messages, parsed_messages, page, loop >>

\* The variables of the outreach script and of the sheet watcher.
outreachVars == << sentTrackerFile, outreach, outbox, watcher >>

vars == << pc, run, env, cursorFile, sheet, last_processed, all_messages,
           messages_to_analyze, idx, relevant_jobs, unique_jobs, a_in, a_out, hist,
           dedup_out, dedup_again, header, parsed,
           raw_messages, parsed_messages, page, loop,
           sentTrackerFile, outreach, outbox, watcher >>

(***************************************************************************)
(* Bounds.                                                                 *)
(***************************************************************************)
MaxBatch == 3
MaxRetries == 3
MaxDelay == 2
MaxRuns == 2
MaxMsgs == 2
MaxInput == 3
MaxBudget == 3

(***************************************************************************)
(* Text.                                                                   *)
(***************************************************************************)
UpperChars == << "A","B","C","D","E","F","G","H","I","J","K","L","M",
                 "N","O","P","Q","R","S","T","U","V","W","X","Y","Z" >>
LowerChars == << "a","b","c","d","e","f","g","h","i","j","k","l","m",
                 "n","o","p","q","r","s","t","u","v","w","x","y","z" >>

LowerChar(c) ==
    IF \E i \in DOMAIN UpperChars : UpperChars[i] = c
    THEN LowerChars[CHOOSE i \in DOMAIN UpperChars : UpperChars[i] = c]
    ELSE c

\* str.lower()
Lower(s) == [i \in DOMAIN s |-> LowerChar(s[i])]

IsSpace(c) == c \in {" ", "\t", "\n"}

RECURSIVE LStrip(_)
LStrip(s) == IF s = << >> THEN s
             ELSE IF IsSpace(Head(s)) THEN LStrip(Tail(s)) ELSE s

RECURSIVE RStrip(_)
RStrip(s) == IF s = << >> THEN s
             ELSE IF IsSpace(s[Len(s)]) THEN RStrip(SubSeq(s, 1, Len(s) - 1)) ELSE s

\* str.strip()
Strip(s) == RStrip(LStrip(s))

Bar == << "|" >>

(***************************************************************************)
(* Record store: rows of cells; row 1 is the header row.                   *)
(***************************************************************************)
SheetHeaders ==
    << << "D","a","t","e" >>,
       << "C","o","m","p","a","n","y" >>,
       << "R","o","l","e" >>,
       << "L","o","c","a","t","i","o","n" >>,
       << "E","x","p","e","r","i","e","n","c","e" >>,
       << "S","k","i","l","l","s" >>,
       << "C","o","n","t","a","c","t"," ","E","m","a","i","l" >> >>

\* The row append_relevant_jobs builds for one job.
JobRow(job) ==
    << job.date, job.company, job.role, job.location,
       job.experience, job.skills, job.contact_email >>

append_relevant_jobs_replace(worksheet, jobs) ==
    SubSeq(worksheet, 1, 1) \o [i \in DOMAIN jobs |-> JobRow(jobs[i])]

\* append_relevant_jobs: worksheet.append_rows(rows)
append_relevant_jobs(worksheet, jobs) ==
    worksheet \o [i \in DOMAIN jobs |-> JobRow(jobs[i])]

job_dedup_key_nolower(job) ==
    Strip(job.date \o Bar \o job.company \o Bar \o job.role \o Bar
          \o job.location \o Bar \o job.experience \o Bar \o job.skills
          \o Bar \o job.contact_email)

job_dedup_key(job) ==
    Lower(Strip(job.date \o Bar \o job.company \o Bar \o job.role \o Bar
                \o job.location \o Bar \o job.experience \o Bar \o job.skills
                \o Bar \o job.contact_email))

existing_row_key_nolower(row) ==
    Strip(row[1] \o Bar \o row[2] \o Bar \o row[3] \o Bar \o row[4]
          \o Bar \o row[5] \o Bar \o row[6] \o Bar \o row[7])

\* The key deduplicate_jobs_for_sheet computes for an existing row.
existing_row_key(row) ==
    Lower(Strip(row[1] \o Bar \o row[2] \o Bar \o row[3] \o Bar \o row[4]
                \o Bar \o row[5] \o Bar \o row[6] \o Bar \o row[7]))

existing_keys_with_header(existing_rows) ==
    { existing_row_key(existing_rows[i]) :
        i \in { k \in 1..Len(existing_rows) : Len(existing_rows[k]) >= 7 } }

\* existing_keys: the rows after the first, those of fewer than 7 cells skipped.
existing_keys_of(existing_rows) ==
    { existing_row_key(existing_rows[i]) :
        i \in { k \in 2..Len(existing_rows) : Len(existing_rows[k]) >= 7 } }

RECURSIVE unique_jobs_loop_noseen(_, _, _, _)
unique_jobs_loop_noseen(jobs, existing_keys, batch_seen, acc) ==
    IF jobs = << >> THEN acc
    ELSE LET job == Head(jobs)
             key == job_dedup_key(job)
         IN IF key \in existing_keys
            THEN unique_jobs_loop_noseen(Tail(jobs), existing_keys, batch_seen, acc)
            ELSE unique_jobs_loop_noseen(Tail(jobs), existing_keys,
                                         batch_seen, Append(acc, job))

RECURSIVE unique_jobs_loop(_, _, _, _)
unique_jobs_loop(jobs, existing_keys, batch_seen, acc) ==
    IF jobs = << >> THEN acc
    ELSE LET job == Head(jobs)
             key == job_dedup_key(job)
         IN IF key \in existing_keys \/ key \in batch_seen
            THEN unique_jobs_loop(Tail(jobs), existing_keys, batch_seen, acc)
            ELSE unique_jobs_loop(Tail(jobs), existing_keys,
                                  batch_seen \cup {key}, Append(acc, job))

deduplicate_jobs_for_sheet(worksheet, jobs) ==
    IF jobs = << >> THEN << >>
    ELSE unique_jobs_loop(jobs, existing_keys_of(worksheet), {}, << >>)

(***************************************************************************)
(* JSON values, as far as the code looks into them.  A scalar is a         *)
(* boolean, a string or null; a dict is a set of <<key, scalar>> pairs     *)
(* with one pair per key.                                                  *)
(***************************************************************************)
JBool(b) == [t |-> "bool", b |-> b, s |-> << >>]
JStr(s) == [t |-> "str", b |-> FALSE, s |-> s]
JNull == [t |-> "null", b |-> FALSE, s |-> << >>]

\* Python's bool(v)
Truthy(v) == CASE v.t = "bool" -> v.b
               [] v.t = "str" -> v.s # << >>
               [] OTHER -> FALSE

DictKeys(d) == { p[1] : p \in d }

\* d.get(k, default)
DictGet(d, k, default) ==
    IF k \in DictKeys(d) THEN (CHOOSE p \in d : p[1] = k)[2] ELSE default

DictMerge_nodefault(a, b) == b

\* {**a, **b}
DictMerge(a, b) == { p \in a : p[1] \notin DictKeys(b) } \cup b

DictSet(d, k, v) == { p \in d : p[1] # k } \cup { << k, v >> }

\* A JSON document: an object (its members in obj), or an array, a string,
\* a number or null (no members the code could merge).
JObject(d) == [t |-> "object", obj |-> d]
JArray == [t |-> "array", obj |-> {}]

\* json.loads(text): text is [valid, val]
JsonText(v) == [valid |-> TRUE, val |-> v]
NotJson == [valid |-> FALSE, val |-> JArray]
json_dumps(v) == JsonText(v)

(***************************************************************************)
(* Classification client.                                                  *)
(***************************************************************************)
PlaceholderKeys ==
    { << "r","e","p","l","a","c","e","_","m","e" >>,
      << "n","o","n","e" >>,
      << "n","u","l","l" >> }

clean_key_nolower(value) ==
    LET key == Strip(value)
    IN IF key = << >> \/ key \in PlaceholderKeys THEN << >> ELSE key

clean_key(value) ==
    LET key == Strip(value)
    IN IF key = << >> \/ Lower(key) \in PlaceholderKeys THEN << >> ELSE key

\* One behaviour of the remote service for one request:
\*   kind "error": the transport, raise_for_status() or response.json() raises;
\*   kind "body":  a JSON body `data`; has_choices says whether
\*                 data["choices"][0]["message"]["content"] exists, and
\*                 `content` is then that text.
ServiceError == [kind |-> "error", has_choices |-> FALSE, content |-> NotJson, data |-> JArray]
ServiceAnswer(text) == [kind |-> "body", has_choices |-> TRUE, content |-> text, data |-> JArray]
ServiceOther(data) == [kind |-> "body", has_choices |-> FALSE, content |-> NotJson, data |-> data]

\* call_openrouter_api: [raised, content]
call_openrouter_api(response) ==
    IF response.kind = "error" THEN [raised |-> TRUE, content |-> NotJson]
    ELSE IF response.has_choices THEN [raised |-> FALSE, content |-> response.content]
    ELSE [raised |-> FALSE, content |-> json_dumps(response.data)]

schema_template ==
    { << "relevant", JBool(FALSE) >>,
      << "company", JStr(<< >>) >>,
      << "role", JStr(<< >>) >>,
      << "location", JStr(<< >>) >>,
      << "experience", JStr(<< >>) >>,
      << "skills", JStr(<< >>) >>,
      << "contact_email", JStr(<< >>) >> }

\* The body of the try block of one attempt: [raised, result].
attempt_try(response) ==
    LET got == call_openrouter_api(response)
    IN IF got.raised THEN [raised |-> TRUE, result |-> schema_template]
       ELSE IF ~got.content.valid THEN [raised |-> TRUE, result |-> schema_template]
       ELSE IF got.content.val.t # "object" THEN [raised |-> TRUE, result |-> schema_template]
       ELSE LET merged == DictMerge(schema_template, got.content.val.obj)
            IN [raised |-> FALSE,
                result |-> DictSet(merged, "relevant",
                                   JBool(Truthy(DictGet(merged, "relevant", JBool(FALSE)))))]

RECURSIVE Pow2(_)
Pow2(n) == IF n <= 0 THEN 1 ELSE 2 * Pow2(n - 1)

sleep_seconds_fixed(initial_delay, attempt) == initial_delay

sleep_seconds(initial_delay, attempt) == initial_delay * Pow2(attempt - 1)

\* The for loop of analyze_job_post from `attempt` on; calls and sleeps record
\* the requests made and the time.sleep() durations so far.
RECURSIVE attempt_loop_reraise(_, _, _, _, _, _)
attempt_loop_reraise(attempt, retries, initial_delay, responses, calls, sleeps) ==
    IF attempt > retries
    THEN [raised |-> FALSE, result |-> schema_template, calls |-> calls, sleeps |-> sleeps]
    ELSE LET try == attempt_try(responses[attempt])
         IN IF ~try.raised
            THEN [raised |-> FALSE, result |-> try.result,
                  calls |-> calls + 1, sleeps |-> sleeps]
            ELSE IF attempt >= retries
            THEN [raised |-> TRUE, result |-> schema_template,
                  calls |-> calls + 1, sleeps |-> sleeps]
            ELSE attempt_loop_reraise(attempt + 1, retries, initial_delay, responses,
                     calls + 1, Append(sleeps, sleep_seconds(initial_delay, attempt)))

RECURSIVE attempt_loop_nostop(_, _, _, _, _, _)
attempt_loop_nostop(attempt, retries, initial_delay, responses, calls, sleeps) ==
    IF attempt > retries
    THEN [raised |-> FALSE, result |-> schema_template, calls |-> calls, sleeps |-> sleeps]
    ELSE LET try == attempt_try(responses[attempt])
         IN IF attempt >= retries
            THEN [raised |-> FALSE,
                  result |-> IF try.raised THEN schema_template ELSE try.result,
                  calls |-> calls + 1, sleeps |-> sleeps]
            ELSE attempt_loop_nostop(attempt + 1, retries, initial_delay, responses,
                     calls + 1, Append(sleeps, sleep_seconds(initial_delay, attempt)))

RECURSIVE attempt_loop(_, _, _, _, _, _)
attempt_loop(attempt, retries, initial_delay, responses, calls, sleeps) ==
    IF attempt > retries
    THEN [raised |-> FALSE, result |-> schema_template, calls |-> calls, sleeps |-> sleeps]
    ELSE LET try == attempt_try(responses[attempt])
         IN IF ~try.raised
            THEN [raised |-> FALSE, result |-> try.result,
                  calls |-> calls + 1, sleeps |-> sleeps]
            ELSE IF attempt >= retries
            THEN [raised |-> FALSE, result |-> schema_template,
                  calls |-> calls + 1, sleeps |-> sleeps]
            ELSE attempt_loop(attempt + 1, retries, initial_delay, responses,
                     calls + 1, Append(sleeps, sleep_seconds(initial_delay, attempt)))

\* analyze_job_post: [raised, result, calls, sleeps]; `responses` is what the
\* service does at the 1st, 2nd, ... request.
analyze_job_post(openrouter_key, retries, initial_delay, responses) ==
    IF clean_key(openrouter_key) = << >>
    THEN [raised |-> TRUE, result |-> schema_template, calls |-> 0, sleeps |-> << >>]
    ELSE attempt_loop(1, retries, initial_delay, responses, 0, << >>)

(***************************************************************************)
(* Values of the variables a specification does not use.                   *)
(***************************************************************************)
NoCursor == [some |-> FALSE, ts |-> 0]
AbsentFile == [exists |-> FALSE, text |-> NotJson]
GoodEnv == [complete |-> TRUE, api_key |-> << "k" >>]
NoAnalysisIn == [key |-> << >>, retries |-> 0, initial_delay |-> 0, responses |-> << >>]
NoAnalysisOut == [raised |-> FALSE, result |-> {}, calls |-> 0, sleeps |-> << >>]
NoHist == [reads |-> 0, writes |-> 0, cursorBefore |-> AbsentFile, job_msgs |-> << >>,
           appended |-> {}, emailed |-> FALSE, prevFailAppended |-> {},
           sheetBefore |-> << >>, rejected |-> {}, degraded |-> {},
           prevDegraded |-> {}, notified |-> << >>, prevCollected |-> {}]

NoHeader == [fmt |-> 0, pre_plain_text |-> << >>]
NoParsed == [raised |-> FALSE, matched |-> FALSE, sender |-> << >>, timestamp |-> 0]
NoPage == [rendered |-> << >>, shown |-> {}]
NoLoop == [all_messages |-> << >>, round_idx |-> 0, elapsed |-> 0, budget |-> 0,
           ended |-> "no", deduped |-> << >>]

\* The watcher before it runs; last describes its latest iteration.
NoIteration == [n |-> 0, raised |-> "no", triggered |-> FALSE, first_loop |-> TRUE,
                prev_state |-> << >>, snap |-> << >>, rc |-> 0]
NoStateFile == [exists |-> FALSE, valid |-> FALSE, val |-> << >>]
NoWatcher == [state |-> << >>, first_loop |-> TRUE, file |-> NoStateFile,
              send_on_start |-> FALSE, iter |-> 0, last |-> NoIteration]

OutreachIdle ==
    /\ sentTrackerFile = [exists |-> FALSE, keys |-> {}]
    /\ outreach = << >>
    /\ outbox = {}
    /\ watcher = NoWatcher

ScrapeIdle ==
    /\ dedup_out = << >>
    /\ dedup_again = << >>
    /\ header = NoHeader
    /\ parsed = NoParsed
    /\ raw_messages = << >>
    /\ parsed_messages = << >>
    /\ page = NoPage
    /\ loop = NoLoop

(***************************************************************************)
(* SpecDedup: deduplicate_jobs_for_sheet applied to a store and a batch    *)
(* drawn from bounded sets.                                                *)
(***************************************************************************)
DateText1 == << "0","1" >>
DateText2 == << "0","2" >>

MkJob(date, company, role, contact_email) ==
    [date |-> date, sender |-> << "s" >>, company |-> company, role |-> role,
     location |-> << >>, experience |-> << >>, skills |-> << >>,
     contact_email |-> contact_email]

JobA == MkJob(DateText1, << "A","c" >>, << "q","a" >>, << >>)
JobALower == MkJob(DateText1, << "a","c" >>, << "Q","A" >>, << >>)
JobB == MkJob(DateText1, << "B" >>, << "q","a" >>, << >>)
JobALater == MkJob(DateText2, << "A","c" >>, << "q","a" >>, << >>)
JobMail == MkJob(DateText1, << "A","c" >>, << "q","a" >>, << "e","@","x" >>)
JobMailSpace == MkJob(DateText1, << "A","c" >>, << "q","a" >>, << "E","@","x"," " >>)

DedupJobPool == { JobA, JobALower, JobB, JobALater, JobMail, JobMailSpace }

DedupSheetPool ==
    { << >>,
      << SheetHeaders >>,
      << SheetHeaders, JobRow(JobALower) >>,
      << SheetHeaders, << DateText1, << "B" >>, << "q","a" >> >> >>,
      << JobRow(JobALater), JobRow(JobB) >>,
      << SheetHeaders, JobRow(JobMailSpace) \o << << "S","E","N","T" >> >> >> }

SeqsUpTo(S, n) == UNION { [1..k -> S] : k \in 0..n }

InitDedup ==
    /\ pc = "dedup_call"
    /\ OutreachIdle
    /\ sheet \in DedupSheetPool
    /\ relevant_jobs \in SeqsUpTo(DedupJobPool, MaxBatch)
    /\ unique_jobs = << >>
    /\ run = 0
    /\ env = GoodEnv
    /\ cursorFile = AbsentFile
    /\ last_processed = NoCursor
    /\ all_messages = << >>
    /\ messages_to_analyze = << >>
    /\ idx = 0
    /\ a_in = NoAnalysisIn
    /\ a_out = NoAnalysisOut
    /\ hist = NoHist
    /\ ScrapeIdle

DedupJobs ==
    /\ pc = "dedup_call"
    /\ unique_jobs' = deduplicate_jobs_for_sheet(sheet, relevant_jobs)
    /\ pc' = "dedup_done"
    /\ UNCHANGED scrapeVars
    /\ UNCHANGED outreachVars
    /\ UNCHANGED << run, env, cursorFile, sheet, last_processed, all_messages,
                    messages_to_analyze, idx, relevant_jobs, a_in, a_out, hist >>

NextDedup == DedupJobs

SpecDedup == InitDedup /\ [][NextDedup]_vars

(***************************************************************************)
(* SpecAnalyze: analyze_job_post applied to a key, a retry budget, a delay *)
(* and a behaviour of the service drawn from bounded sets.                 *)
(***************************************************************************)
KeyPool ==
    { << >>,
      << "N","o","n","e" >>,
      << " ","n","u","l","l"," " >>,
      << "k" >>,
      << " ","k" >> }

AnswerRelevant ==
    JObject({ << "relevant", JBool(TRUE) >>, << "company", JStr(<< "A","c" >>) >>,
              << "role", JStr(<< "q","a" >>) >> })
AnswerOddRelevant ==
    JObject({ << "relevant", JStr(<< "n","o" >>) >>, << "note", JNull >> })
ErrorBody == JObject({ << "error", JStr(<< "r","a","t","e" >>) >> })

ResponsePool ==
    { ServiceError,
      ServiceAnswer(NotJson),
      ServiceAnswer(JsonText(JArray)),
      ServiceAnswer(JsonText(AnswerRelevant)),
      ServiceAnswer(JsonText(AnswerOddRelevant)),
      ServiceOther(ErrorBody) }

InitAnalyze ==
    /\ pc = "analyze_call"
    /\ OutreachIdle
    /\ a_in \in [key : KeyPool, retries : 0..MaxRetries, initial_delay : 0..MaxDelay,
                 responses : [1..MaxRetries -> ResponsePool]]
    /\ a_out = NoAnalysisOut
    /\ run = 0
    /\ env = GoodEnv
    /\ cursorFile = AbsentFile
    /\ sheet = << >>
    /\ last_processed = NoCursor
    /\ all_messages = << >>
    /\ messages_to_analyze = << >>
    /\ idx = 0
    /\ relevant_jobs = << >>
    /\ unique_jobs = << >>
    /\ hist = NoHist
    /\ ScrapeIdle

AnalyzeCall ==
    /\ pc = "analyze_call"
    /\ a_out' = analyze_job_post(a_in.key, a_in.retries, a_in.initial_delay, a_in.responses)
    /\ pc' = IF a_out'.raised THEN "analyze_raised" ELSE "analyze_returned"
    /\ UNCHANGED scrapeVars
    /\ UNCHANGED outreachVars
    /\ UNCHANGED << run, env, cursorFile, sheet, last_processed, all_messages,
                    messages_to_analyze, idx, relevant_jobs, unique_jobs, a_in, hist >>

NextAnalyze == AnalyzeCall

SpecAnalyze == InitAnalyze /\ [][NextAnalyze]_vars

(***************************************************************************)
(* Claims about analyze_job_post (SpecAnalyze).                            *)
(***************************************************************************)
AnalyzeDone == pc \in {"analyze_returned", "analyze_raised"}

\* The key is configured: not empty and not a placeholder, whatever its case
\* and surrounding blanks.
KeyConfigured(k) ==
    /\ Strip(k) # << >>
    /\ Lower(Strip(k)) \notin { << "r","e","p","l","a","c","e","_","m","e" >>,
                                << "n","o","n","e" >>, << "n","u","l","l" >> }

AllCallsRaise == \A i \in 1..a_in.retries : a_in.responses[i].kind = "error"

\* The mapping has every key of the schema, once, and a boolean 'relevant'.
ClassifiedJobShaped(d) ==
    /\ DictKeys(schema_template) \subseteq DictKeys(d)
    /\ \A p \in d : \A q \in d : p[1] = q[1] => p = q
    /\ \A p \in d : p[1] = "relevant" => p[2].t = "bool"

\* C1: with a configured key, if every call to the service raises,
\* analyze_job_post(retries=R, initial_delay=D) returns the zero-valued default
\* record after exactly R calls, having slept D * 2^(attempt-1) after each
\* attempt but the last.
C1_FailOpen ==
    (AnalyzeDone /\ KeyConfigured(a_in.key) /\ AllCallsRaise) =>
        /\ pc = "analyze_returned"
        /\ a_out.result = schema_template
        /\ DictGet(a_out.result, "relevant", JNull) = JBool(FALSE)
        /\ a_out.calls = a_in.retries
        /\ a_out.sleeps = [i \in 1..(a_in.retries - 1) |-> a_in.initial_delay * 2^(i - 1)]

C1_Witness ==
    /\ pc = "analyze_returned"
    /\ a_in.key = << " ","k" >>
    /\ a_in.retries = 3
    /\ a_in.initial_delay = 2
    /\ AllCallsRaise
    /\ a_out.calls = 3
    /\ a_out.sleeps = << 2, 4 >>
    /\ a_out.result = schema_template

LastPayload ==
    IF a_out.calls = 0 THEN {}
    ELSE LET r == a_in.responses[a_out.calls]
         IN IF r.kind # "body" THEN {}
            ELSE IF ~r.has_choices THEN (IF r.data.t = "object" THEN r.data.obj ELSE {})
            ELSE IF r.content.valid /\ r.content.val.t = "object" THEN r.content.val.obj
            ELSE {}

\* C21: every mapping analyze_job_post returns has every key of the schema,
\* once; a key the answer does not have keeps the schema's default (empty
\* string, false), a key it has keeps the answer's value, and 'relevant' is a
\* boolean: the truth value of the answer's.
C21_SchemaComplete ==
    pc = "analyze_returned" =>
        /\ DictKeys(schema_template) \subseteq DictKeys(a_out.result)
        /\ \A p \in a_out.result : \A q \in a_out.result : p[1] = q[1] => p = q
        /\ DictGet(a_out.result, "relevant", JNull).t = "bool"
        /\ \A p \in schema_template :
              p[1] \notin DictKeys(LastPayload) => p \in a_out.result
        /\ \A p \in LastPayload :
              IF p[1] = "relevant" THEN << "relevant", JBool(Truthy(p[2])) >> \in a_out.result
              ELSE p \in a_out.result

C21_Witness ==
    /\ pc = "analyze_returned"
    /\ a_in.key = << "k" >>
    /\ a_in.retries = 2
    /\ a_in.responses[1] = ServiceError
    /\ a_in.responses[2] = ServiceAnswer(JsonText(AnswerOddRelevant))
    /\ a_out.calls = 2
    /\ a_out.result = (schema_template \ { << "relevant", JBool(FALSE) >> })
                          \cup { << "relevant", JBool(TRUE) >>, << "note", JNull >> }

\* The answer is not the text of a JSON object delivered in the
\* choices/content structure of a 2xx response.
Diverges(r) ==
    \/ r.kind = "error"
    \/ ~r.has_choices
    \/ ~r.content.valid
    \/ r.content.val.t # "object"

\* C22: an answer that diverges (request raised or non-2xx status, body
\* without the choices/content structure, malformed JSON, JSON that is not an
\* object) is a failed attempt: when the last request of a call was answered
\* so, the retries are exhausted and the default record is returned.
C22_DivergenceIsFailedAttempt ==
    (pc = "analyze_returned" /\ a_out.calls >= 1
        /\ Diverges(a_in.responses[a_out.calls])) =>
            /\ a_out.calls = a_in.retries
            /\ a_out.result = schema_template

\* The members of the JSON object an answer carries as text, and whether it
\* carries one: the text is the content of the first choice or, without
\* that structure, the body itself.
PayloadOf(r) ==
    IF r.kind # "body" THEN [ok |-> FALSE, obj |-> {}]
    ELSE IF ~r.has_choices THEN [ok |-> r.data.t = "object", obj |-> r.data.obj]
    ELSE [ok |-> r.content.valid /\ r.content.val.t = "object", obj |-> r.content.val.obj]

\* The attempts of the call that succeed: no exception inside the try block.
SucceedingAttempts == { i \in 1..a_in.retries : PayloadOf(a_in.responses[i]).ok }

FirstSuccess == CHOOSE k \in SucceedingAttempts : \A i \in SucceedingAttempts : k <= i

\* The payload merged over the schema, 'relevant' made a boolean.
MergedAnswer(obj) ==
    { p \in schema_template : p[1] \notin DictKeys(obj) }
    \cup { p \in obj : p[1] # "relevant" }
    \cup { << "relevant", JBool(Truthy(p[2])) >> : p \in { q \in obj : q[1] = "relevant" } }

\* C28: with a configured key the attempts stop at the first that succeeds:
\* when attempt k is the first, the service is called k times, k-1 sleeps of
\* initial_delay * 2^(i-1) occur, and the merged answer of attempt k is
\* returned; the calls never exceed retries and no sleep follows the last
\* attempt made.
C28_StopsAtFirstSuccess ==
    pc = "analyze_returned" =>
        /\ a_out.calls <= a_in.retries
        /\ Len(a_out.sleeps) = IF a_out.calls = 0 THEN 0 ELSE a_out.calls - 1
        /\ \A i \in DOMAIN a_out.sleeps : a_out.sleeps[i] = a_in.initial_delay * 2^(i - 1)
        /\ IF SucceedingAttempts # {}
           THEN /\ a_out.calls = FirstSuccess
                /\ a_out.result = MergedAnswer(PayloadOf(a_in.responses[FirstSuccess]).obj)
           ELSE /\ a_out.calls = a_in.retries
                /\ a_out.result = schema_template

C28_Witness ==
    /\ pc = "analyze_returned"
    /\ a_in.retries = 3
    /\ a_in.initial_delay = 2
    /\ a_in.responses[1] = ServiceAnswer(NotJson)
    /\ a_in.responses[2] = ServiceAnswer(JsonText(AnswerRelevant))
    /\ a_in.responses[3] = ServiceAnswer(JsonText(AnswerOddRelevant))
    /\ a_out.calls = 2
    /\ a_out.sleeps = << 2 >>
    /\ << "company", JStr(<< "A","c" >>) >> \in a_out.result


(***************************************************************************)
\* The elements of s at the indices in I, in order.
PickIndices(s, I) ==
    LET F[k \in 0..Len(s)] ==
            IF k = 0 THEN << >>
            ELSE IF k \in I THEN Append(F[k - 1], s[k]) ELSE F[k - 1]
    IN F[Len(s)]

\* Keys of the store: data rows (after the header row) of at least 7 cells.
StoreKeys(rows) ==
    { existing_row_key(rows[i]) : i \in { k \in 2..Len(rows) : Len(rows[k]) >= 7 } }

FirstNewIndices(rows, batch) ==
    { i \in 1..Len(batch) :
        /\ job_dedup_key(batch[i]) \notin StoreKeys(rows)
        /\ \A j \in 1..(i - 1) : job_dedup_key(batch[j]) # job_dedup_key(batch[i]) }

\* C8: deduplicate_jobs_for_sheet returns exactly the subsequence of the batch,
\* in batch order, of the records whose key is not a key of an existing data
\* row of 7 or more cells and that are the first of the batch with their key.
C8_ExactSubsequence ==
    pc = "dedup_done" =>
        unique_jobs = PickIndices(relevant_jobs, FirstNewIndices(sheet, relevant_jobs))

C8_Witness ==
    /\ pc = "dedup_done"
    /\ sheet = << SheetHeaders, << DateText1, << "B" >>, << "q","a" >> >> >>
    /\ relevant_jobs = << JobB, JobA, JobALower >>
    /\ unique_jobs = << JobB, JobA >>

KeyFields(job) == JobRow(job)

\* Two rows of 7 cells that differ only in letter case.
CaseEqualRows(r1, r2) == \A c \in 1..7 : Lower(r1[c]) = Lower(r2[c])

\* C9: records that differ only in letter case in the 7 key fields have the
\* same key; of such records only one is kept, the first; a record that
\* differs only in case from an existing data row is dropped.
C9_CaseInsensitive ==
    pc = "dedup_done" =>
        /\ \A i, j \in DOMAIN relevant_jobs :
              CaseEqualRows(KeyFields(relevant_jobs[i]), KeyFields(relevant_jobs[j]))
                  => job_dedup_key(relevant_jobs[i]) = job_dedup_key(relevant_jobs[j])
        /\ \A m, n \in DOMAIN unique_jobs :
              (m < n) => ~CaseEqualRows(KeyFields(unique_jobs[m]), KeyFields(unique_jobs[n]))
        /\ \A m \in DOMAIN unique_jobs : \A i \in DOMAIN relevant_jobs :
              (CaseEqualRows(KeyFields(unique_jobs[m]), KeyFields(relevant_jobs[i]))
               /\ \A j \in 1..(i - 1) :
                     ~CaseEqualRows(KeyFields(relevant_jobs[j]), KeyFields(relevant_jobs[i])))
                  => unique_jobs[m] = relevant_jobs[i]
        /\ \A m \in DOMAIN unique_jobs : \A k \in 2..Len(sheet) :
              Len(sheet[k]) >= 7 => ~CaseEqualRows(KeyFields(unique_jobs[m]), sheet[k])

C9_Witness ==
    /\ pc = "dedup_done"
    /\ sheet = << SheetHeaders, JobRow(JobALower) >>
    /\ relevant_jobs = << JobA >>
    /\ unique_jobs = << >>

(***************************************************************************)
(* Messages and timestamps.                                                *)
(***************************************************************************)
DigitChars == << "0","1","2","3","4","5","6","7","8","9" >>
Digits2(t) == << DigitChars[(t \div 10) + 1], DigitChars[(t % 10) + 1] >>

\* datetime.isoformat(): the minutes, then the (zero) seconds.
Isoformat(t) == Digits2(t) \o << ":","0","0" >>

\* strftime("%Y-%m-%d %H:%M"): the minutes, no seconds.
Strftime(t) == Digits2(t)

DigitValue(c) == (CHOOSE i \in DOMAIN DigitChars : DigitChars[i] = c) - 1
IsDigit(c) == \E i \in DOMAIN DigitChars : DigitChars[i] = c

\* datetime.fromisoformat(s): [ok, ts]; not ok stands for ValueError.
FromIsoformat(s) ==
    IF /\ Len(s) = 5
       /\ IsDigit(s[1]) /\ IsDigit(s[2])
       /\ SubSeq(s, 3, 5) = << ":","0","0" >>
    THEN [ok |-> TRUE, ts |-> 10 * DigitValue(s[1]) + DigitValue(s[2])]
    ELSE [ok |-> FALSE, ts |-> 0]

Msg(sender, timestamp, text) == [sender |-> sender, timestamp |-> timestamp, text |-> text]

message_dedup_key(message) ==
    message.sender \o Bar \o Isoformat(message.timestamp) \o Bar \o Strip(message.text)

RECURSIVE deduped_loop_skip(_, _, _)
deduped_loop_skip(messages, seen, deduped) ==
    IF messages = << >> THEN deduped
    ELSE LET key == message_dedup_key(Head(messages))
             rest == Tail(messages)
         IN IF key \in seen
            THEN IF rest = << >> THEN deduped
                 ELSE deduped_loop_skip(Tail(rest), seen, Append(deduped, Head(rest)))
            ELSE deduped_loop_skip(rest, seen \cup {key}, Append(deduped, Head(messages)))

RECURSIVE deduped_loop_noadd(_, _, _)
deduped_loop_noadd(messages, seen, deduped) ==
    IF messages = << >> THEN deduped
    ELSE LET key == message_dedup_key(Head(messages))
         IN IF key \in seen
            THEN deduped_loop_noadd(Tail(messages), seen, deduped)
            ELSE deduped_loop_noadd(Tail(messages), seen, Append(deduped, Head(messages)))

\* The for loop of deduplicate_messages.  (The arguments are bound to their
\* values once, by the set constructor, before the iteration is evaluated.)
RECURSIVE deduped_loop(_, _, _)
deduped_loop(messages, seen, deduped) ==
    CHOOSE result \in
        { IF ms = << >> THEN dd
          ELSE IF key \in sn
               THEN deduped_loop(Tail(ms), sn, dd)
               ELSE deduped_loop(Tail(ms), sn \cup {key}, Append(dd, Head(ms))) :
            ms \in {messages}, sn \in {seen}, dd \in {deduped},
            key \in { IF messages = << >> THEN << >>
                      ELSE message_dedup_key(Head(messages)) } } : TRUE

deduplicate_messages(messages) == deduped_loop(messages, {}, << >>)

\* list.sort(key=lambda m: m["timestamp"]): stable, ascending.
RECURSIVE InsertByTimestamp(_, _)
InsertByTimestamp(sorted, m) ==
    CHOOSE result \in
        { IF st = << >> THEN << x >>
          ELSE IF st[Len(st)].timestamp <= x.timestamp THEN Append(st, x)
          ELSE Append(InsertByTimestamp(SubSeq(st, 1, Len(st) - 1), x), st[Len(st)]) :
            st \in {sorted}, x \in {m} } : TRUE

RECURSIVE SortByTimestamp(_)
SortByTimestamp(messages) ==
    CHOOSE result \in
        { IF ms = << >> THEN << >>
          ELSE InsertByTimestamp(SortByTimestamp(SubSeq(ms, 1, Len(ms) - 1)), ms[Len(ms)]) :
            ms \in {messages} } : TRUE

collected_unsorted(raw) == deduplicate_messages(raw)

\* What scrape_all_loaded_messages returns for the nodes it accumulated.
collected(raw) == SortByTimestamp(deduplicate_messages(raw))

(***************************************************************************)
(* Cursor persistence.                                                     *)
(***************************************************************************)
CursorField == "last_message_timestamp"

load_last_processed_timestamp_absent(file) == [raised |-> FALSE, some |-> FALSE, ts |-> 0]

\* load_last_processed_timestamp: [raised, some, ts]
load_last_processed_timestamp(file) ==
    LET none == [raised |-> FALSE, some |-> FALSE, ts |-> 0]
        fatal == [raised |-> TRUE, some |-> FALSE, ts |-> 0]
    IN IF ~file.exists THEN none
       ELSE IF ~file.text.valid THEN none
       ELSE IF file.text.val.t # "object" THEN fatal
       ELSE LET ts == DictGet(file.text.val.obj, CursorField, JNull)
            IN IF ~Truthy(ts) THEN none
               ELSE IF ts.t # "str" THEN fatal
               ELSE IF ~FromIsoformat(ts.s).ok THEN none
               ELSE [raised |-> FALSE, some |-> TRUE, ts |-> FromIsoformat(ts.s).ts]

save_last_processed_timestamp_zero(ts) ==
    [exists |-> TRUE,
     text |-> json_dumps(JObject({ << CursorField, JStr(Isoformat(0)) >> }))]

\* save_last_processed_timestamp: the file it writes
save_last_processed_timestamp(ts) ==
    [exists |-> TRUE,
     text |-> json_dumps(JObject({ << CursorField, JStr(Isoformat(ts)) >> }))]

(***************************************************************************)
(* Steps of main().                                                        *)
(***************************************************************************)
DefaultRetries == 3
DefaultDelay == 2

\* validate_env raises when a required variable is missing or empty.
validate_env_raises(e) == ~e.complete \/ e.api_key = << >>

\* ensure_sheet, for a spreadsheet that opens by URL: row 1 is made the header.
ensure_sheet(worksheet) ==
    IF worksheet = << >> THEN << SheetHeaders >>
    ELSE IF worksheet[1] = SheetHeaders THEN worksheet
    ELSE [worksheet EXCEPT ![1] =
            SheetHeaders \o SubSeq(worksheet[1], 8, Len(worksheet[1]))]

filter_after_inclusive(deduped_messages, cursor) ==
    IF cursor.some
    THEN SelectSeq(deduped_messages, LAMBDA m : m.timestamp >= cursor.ts)
    ELSE deduped_messages

filter_none(deduped_messages, cursor) == deduped_messages

\* main.py:719-722
filter_after(deduped_messages, cursor) ==
    IF cursor.some
    THEN SelectSeq(deduped_messages, LAMBDA m : m.timestamp > cursor.ts)
    ELSE deduped_messages

latest_timestamp_first(messages) == messages[1].timestamp

\* max(m["timestamp"] for m in messages_to_analyze)
latest_timestamp(messages) ==
    CHOOSE t \in { messages[i].timestamp : i \in DOMAIN messages } :
        \A i \in DOMAIN messages : messages[i].timestamp <= t

\* The record main() builds from a message and a relevant classification.
\* (Business fields are strings in the answers modelled.)
build_job(msg, ai_result) ==
    [date |-> Strftime(msg.timestamp),
     sender |-> msg.sender,
     company |-> DictGet(ai_result, "company", JStr(<< >>)).s,
     role |-> DictGet(ai_result, "role", JStr(<< >>)).s,
     location |-> DictGet(ai_result, "location", JStr(<< >>)).s,
     experience |-> DictGet(ai_result, "experience", JStr(<< >>)).s,
     skills |-> Strip(DictGet(ai_result, "skills", JStr(<< >>)).s),
     contact_email |-> DictGet(ai_result, "contact_email", JStr(<< >>)).s]

is_relevant_always(ai_result) == TRUE

\* main.py:743: if not ai_result.get("relevant"): continue
is_relevant(ai_result) == Truthy(DictGet(ai_result, "relevant", JNull))

\* What the service reported over the attempts of one classification: the
\* 'relevant' of its first answer, or "degraded" when no attempt answered.
ServiceVerdict(responses) ==
    LET answered == { i \in DOMAIN responses :
                        /\ responses[i].kind = "body"
                        /\ responses[i].has_choices
                        /\ responses[i].content.valid }
    IN IF answered = {} THEN "degraded"
       ELSE LET first == CHOOSE i \in answered : \A j \in answered : i <= j
            IN IF << "relevant", JBool(TRUE) >> \in responses[first].content.val.obj
               THEN "relevant" ELSE "not_relevant"

email_jobs_none(jobs) == << >>

\* main.py:777-782: send_email_summary(..., jobs=unique_jobs)
email_jobs(jobs) == jobs

after_append_skip_email == "save"

\* Where main() goes once append_relevant_jobs returned.
after_append == "email"

(***************************************************************************)
(* Spec: runs of main(), one at a time, over a persisted cursor file and a *)
(* record store.                                                           *)
(***************************************************************************)
\* Sample messages: two posted in the same minute, one in a later minute.
MsgX1 == Msg(<< "s" >>, 1, << "x" >>)
MsgY1 == Msg(<< "s" >>, 1, << "y" >>)
MsgX2 == Msg(<< "s" >>, 2, << "x" >>)
MessagePool == { MsgX1, MsgY1, MsgX2 }

\* What get_all_messages can return: the accumulated nodes, deduplicated and sorted.
CollectorResults == { collected(raw) : raw \in SeqsUpTo(MessagePool, MaxMsgs) }

AnswerOther ==
    JObject({ << "relevant", JBool(TRUE) >>, << "company", JStr(<< "B" >>) >>,
              << "role", JStr(<< "q","a" >>) >> })
AnswerNotRelevant == JObject({ << "relevant", JBool(FALSE) >> })

\* Behaviours of the service over the attempts of one classification.
ServiceBehaviours ==
    { << ServiceError, ServiceError, ServiceError >>,
      << ServiceAnswer(JsonText(AnswerNotRelevant)), ServiceError, ServiceError >>,
      << ServiceError, ServiceAnswer(JsonText(AnswerRelevant)), ServiceError >>,
      << ServiceAnswer(JsonText(AnswerOther)), ServiceError, ServiceError >> }

CursorFilePool == { AbsentFile, save_last_processed_timestamp(1) }

EnvPool == { GoodEnv,
             [complete |-> FALSE, api_key |-> << "k" >>],
             [complete |-> TRUE, api_key |-> << "n","o","n","e" >>] }

\* A first row that is not the header ensure_sheet expects: other labels and
\* an eighth column.
OtherHeaders == [i \in 1..8 |-> IF i <= 7 THEN Lower(SheetHeaders[i]) ELSE << "N" >>]

SheetPool == { << >>, << SheetHeaders, JobRow(JobALower) >>,
               << OtherHeaders, JobRow(JobALower) >> }

Init ==
    /\ pc = "idle"
    /\ OutreachIdle
    /\ run = 0
    /\ env \in EnvPool
    /\ cursorFile \in CursorFilePool
    /\ sheet \in SheetPool
    /\ last_processed = NoCursor
    /\ all_messages = << >>
    /\ messages_to_analyze = << >>
    /\ idx = 0
    /\ relevant_jobs = << >>
    /\ unique_jobs = << >>
    /\ a_in = NoAnalysisIn
    /\ a_out = NoAnalysisOut
    /\ hist = [NoHist EXCEPT !.cursorBefore = cursorFile, !.sheetBefore = sheet]
    /\ ScrapeIdle

RunEnded == pc \in {"idle", "done", "failed"}

\* main.py:697-703: a run starts; validate_env.
ValidateEnv ==
    /\ RunEnded
    /\ run < MaxRuns
    /\ run' = run + 1
    /\ pc' = IF validate_env_raises(env) THEN "failed" ELSE "load"
    /\ last_processed' = NoCursor
    /\ all_messages' = << >>
    /\ messages_to_analyze' = << >>
    /\ idx' = 0
    /\ relevant_jobs' = << >>
    /\ unique_jobs' = << >>
    /\ a_in' = NoAnalysisIn
    /\ a_out' = NoAnalysisOut
    /\ hist' = [NoHist EXCEPT !.cursorBefore = cursorFile,
                              !.sheetBefore = sheet,
                              !.prevCollected = hist.prevCollected \cup
                                  { all_messages[i] : i \in DOMAIN all_messages },
                              !.prevDegraded =
                                  IF pc = "done" THEN hist.prevDegraded \cup hist.degraded
                                  ELSE hist.prevDegraded,
                              !.prevFailAppended =
                                  IF pc = "failed" THEN hist.appended ELSE {}]
    /\ UNCHANGED scrapeVars
    /\ UNCHANGED outreachVars
    /\ UNCHANGED << env, cursorFile, sheet >>

\* main.py:705
LoadCursor ==
    /\ pc = "load"
    /\ LET r == load_last_processed_timestamp(cursorFile)
       IN /\ pc' = IF r.raised THEN "failed" ELSE "scrape"
          /\ last_processed' = [some |-> r.some, ts |-> r.ts]
    /\ hist' = [hist EXCEPT !.reads = @ + 1]
    /\ UNCHANGED scrapeVars
    /\ UNCHANGED outreachVars
    /\ UNCHANGED << run, env, cursorFile, sheet, all_messages, messages_to_analyze,
                    idx, relevant_jobs, unique_jobs, a_in, a_out >>

\* main.py:709-711
GetAllMessages ==
    /\ pc = "scrape"
    /\ all_messages' \in CollectorResults
    /\ pc' = "filter"
    /\ UNCHANGED scrapeVars
    /\ UNCHANGED outreachVars
    /\ UNCHANGED << run, env, cursorFile, sheet, last_processed, messages_to_analyze,
                    idx, relevant_jobs, unique_jobs, a_in, a_out, hist >>

\* main.py:709: the browser session fails (login timeout, group not found).
GetAllMessagesFails ==
    /\ pc = "scrape"
    /\ pc' = "failed"
    /\ UNCHANGED scrapeVars
    /\ UNCHANGED outreachVars
    /\ UNCHANGED << run, env, cursorFile, sheet, last_processed, all_messages,
                    messages_to_analyze, idx, relevant_jobs, unique_jobs, a_in, a_out, hist >>

\* main.py:712-727
FilterMessages ==
    /\ pc = "filter"
    /\ IF all_messages = << >>
       THEN /\ messages_to_analyze' = << >>
            /\ pc' = "early_outreach"
            /\ idx' = idx
       ELSE /\ messages_to_analyze' =
                   filter_after(deduplicate_messages(all_messages), last_processed)
            /\ pc' = IF messages_to_analyze' = << >> THEN "early_outreach" ELSE "analyze"
            /\ idx' = 1
    /\ UNCHANGED scrapeVars
    /\ UNCHANGED outreachVars
    /\ UNCHANGED << run, env, cursorFile, sheet, last_processed, all_messages,
                    relevant_jobs, unique_jobs, a_in, a_out, hist >>

\* main.py:735-761: one iteration of the classification loop.
AnalyzeMessage ==
    /\ pc = "analyze"
    /\ idx <= Len(messages_to_analyze)
    /\ \E behaviour \in ServiceBehaviours :
          LET msg == messages_to_analyze[idx]
              out == analyze_job_post(env.api_key, DefaultRetries, DefaultDelay, behaviour)
              relevant == is_relevant(out.result)
              last == idx = Len(messages_to_analyze)
          IN /\ IF out.raised
                THEN /\ pc' = "failed"
                     /\ UNCHANGED << idx, relevant_jobs, hist >>
                ELSE /\ idx' = idx + 1
                     /\ relevant_jobs' = IF relevant
                                         THEN Append(relevant_jobs, build_job(msg, out.result))
                                         ELSE relevant_jobs
                     /\ hist' = [hist EXCEPT
                                   !.job_msgs = IF relevant THEN Append(@, msg) ELSE @,
                                   !.rejected = IF ServiceVerdict(behaviour) # "relevant"
                                                THEN @ \cup {msg} ELSE @,
                                   !.degraded = IF ServiceVerdict(behaviour) = "degraded"
                                                THEN @ \cup {msg} ELSE @]
                     /\ pc' = IF ~last THEN "analyze"
                              ELSE IF relevant_jobs' # << >> THEN "sheet" ELSE "save"
    /\ UNCHANGED scrapeVars
    /\ UNCHANGED outreachVars
    /\ UNCHANGED << run, env, cursorFile, sheet, last_processed, all_messages,
                    messages_to_analyze, unique_jobs, a_in, a_out >>

\* main.py:765-770: get_gspread_client and ensure_sheet.
EnsureSheet ==
    /\ pc = "sheet"
    /\ sheet' = ensure_sheet(sheet)
    /\ pc' = "dedup"
    /\ UNCHANGED scrapeVars
    /\ UNCHANGED outreachVars
    /\ UNCHANGED << run, env, cursorFile, last_processed, all_messages, messages_to_analyze,
                    idx, relevant_jobs, unique_jobs, a_in, a_out, hist >>

\* main.py:772-773
DeduplicateJobs ==
    /\ pc = "dedup"
    /\ unique_jobs' = deduplicate_jobs_for_sheet(sheet, relevant_jobs)
    /\ pc' = IF unique_jobs' # << >> THEN "append" ELSE "save"
    /\ UNCHANGED scrapeVars
    /\ UNCHANGED outreachVars
    /\ UNCHANGED << run, env, cursorFile, sheet, last_processed, all_messages,
                    messages_to_analyze, idx, relevant_jobs, a_in, a_out, hist >>

\* The message a kept job was built from: the kept job is the first of the
\* batch with its key.
SourceMessage(job) ==
    hist.job_msgs[CHOOSE i \in DOMAIN relevant_jobs :
                     /\ relevant_jobs[i] = job
                     /\ \A j \in 1..(i - 1) : relevant_jobs[j] # job]

\* main.py:775
AppendJobs ==
    /\ pc = "append"
    /\ sheet' = append_relevant_jobs(sheet, unique_jobs)
    /\ hist' = [hist EXCEPT !.appended =
                   { << SourceMessage(unique_jobs[i]), job_dedup_key(unique_jobs[i]) >> :
                       i \in DOMAIN unique_jobs }]
    /\ pc' = after_append
    /\ UNCHANGED scrapeVars
    /\ UNCHANGED outreachVars
    /\ UNCHANGED << run, env, cursorFile, last_processed, all_messages, messages_to_analyze,
                    idx, relevant_jobs, unique_jobs, a_in, a_out >>

\* main.py:765-775: the record store raises (credentials, API error).
StoreFails ==
    /\ pc \in {"sheet", "dedup", "append"}
    /\ pc' = "failed"
    /\ UNCHANGED scrapeVars
    /\ UNCHANGED outreachVars
    /\ UNCHANGED << run, env, cursorFile, sheet, last_processed, all_messages,
                    messages_to_analyze, idx, relevant_jobs, unique_jobs, a_in, a_out, hist >>

\* main.py:777-782
SendEmailSummary ==
    /\ pc = "email"
    /\ hist' = [hist EXCEPT !.emailed = TRUE, !.notified = email_jobs(unique_jobs)]
    /\ pc' = "save"
    /\ UNCHANGED scrapeVars
    /\ UNCHANGED outreachVars
    /\ UNCHANGED << run, env, cursorFile, sheet, last_processed, all_messages,
                    messages_to_analyze, idx, relevant_jobs, unique_jobs, a_in, a_out >>

\* main.py:777-782: the mail transport raises.
SendEmailFails ==
    /\ pc = "email"
    /\ pc' = "failed"
    /\ UNCHANGED scrapeVars
    /\ UNCHANGED outreachVars
    /\ UNCHANGED << run, env, cursorFile, sheet, last_processed, all_messages,
                    messages_to_analyze, idx, relevant_jobs, unique_jobs, a_in, a_out, hist >>

\* main.py:792-794
SaveCursor ==
    /\ pc = "save"
    /\ cursorFile' = save_last_processed_timestamp(latest_timestamp(messages_to_analyze))
    /\ hist' = [hist EXCEPT !.writes = @ + 1]
    /\ pc' = "outreach"
    /\ UNCHANGED scrapeVars
    /\ UNCHANGED outreachVars
    /\ UNCHANGED << run, env, sheet, last_processed, all_messages, messages_to_analyze,
                    idx, relevant_jobs, unique_jobs, a_in, a_out >>

\* main.py:714, 726, 795: run_outreach_task, then the run returns.
RunOutreachTask ==
    /\ pc \in {"early_outreach", "outreach"}
    /\ pc' = "done"
    /\ UNCHANGED scrapeVars
    /\ UNCHANGED outreachVars
    /\ UNCHANGED << run, env, cursorFile, sheet, last_processed, all_messages,
                    messages_to_analyze, idx, relevant_jobs, unique_jobs, a_in, a_out, hist >>

Next ==
    \/ ValidateEnv
    \/ LoadCursor
    \/ GetAllMessages
    \/ GetAllMessagesFails
    \/ FilterMessages
    \/ AnalyzeMessage
    \/ EnsureSheet
    \/ DeduplicateJobs
    \/ AppendJobs
    \/ StoreFails
    \/ SendEmailSummary
    \/ SendEmailFails
    \/ SaveCursor
    \/ RunOutreachTask

Spec == Init /\ [][Next]_vars

(***************************************************************************)
(* Claims about the runs of main() (Spec).                                 *)
(***************************************************************************)
\* The cursor a run would load from a file, as [some, ts].
StoredCursor(file) ==
    LET r == load_last_processed_timestamp(file) IN [some |-> r.some, ts |-> r.ts]

IsMaxTimestamp(t, messages) ==
    /\ \E i \in DOMAIN messages : messages[i].timestamp = t
    /\ \A i \in DOMAIN messages : messages[i].timestamp <= t

\* C3: a run that returns with an empty filtered set (also when nothing was
\* collected) leaves the cursor file as it was; a run that completes with a
\* non-empty filtered set leaves max(timestamp) of that set in it, whatever the
\* number of relevant records.
C3_CursorAdvance ==
    /\ pc = "early_outreach" => cursorFile = hist.cursorBefore
    /\ pc = "done" =>
          IF messages_to_analyze = << >>
          THEN cursorFile = hist.cursorBefore /\ hist.writes = 0
          ELSE /\ StoredCursor(cursorFile).some
               /\ IsMaxTimestamp(StoredCursor(cursorFile).ts, messages_to_analyze)

C3_Witness ==
    /\ pc = "done"
    /\ messages_to_analyze = << MsgY1, MsgX2 >>
    /\ relevant_jobs = << >>
    /\ hist.cursorBefore = AbsentFile
    /\ StoredCursor(cursorFile) = [some |-> TRUE, ts |-> 2]

\* C4: the cursor stored at any point of a run is never earlier than the
\* cursor that was stored when the run started.
C4_CursorMonotone ==
    StoredCursor(hist.cursorBefore).some =>
        /\ StoredCursor(cursorFile).some
        /\ StoredCursor(cursorFile).ts >= StoredCursor(hist.cursorBefore).ts

C4_Witness ==
    /\ pc = "done"
    /\ run = 2
    /\ hist.writes = 1
    /\ StoredCursor(hist.cursorBefore) = [some |-> TRUE, ts |-> 1]
    /\ StoredCursor(cursorFile) = [some |-> TRUE, ts |-> 2]

AfterLoad ==
    pc \in {"scrape", "filter", "analyze", "sheet", "dedup", "append", "email", "save",
            "early_outreach", "outreach", "done"}

\* The last rows of the store are the rows of the batch.
StoreEndsWith(jobs) ==
    /\ Len(sheet) >= Len(jobs)
    /\ \A i \in DOMAIN jobs : sheet[Len(sheet) - Len(jobs) + i] = JobRow(jobs[i])

\* C5: in a run the cursor is read once, before collection, and written at most
\* once; when it has been written, every message of the filtered set has been
\* classified and, if the deduplicated batch is not empty, its rows are in the
\* store and the notification was sent; a run that failed left the file as it was.
C5_CursorReadWrite ==
    /\ hist.reads <= 1
    /\ hist.writes <= 1
    /\ pc = "load" => hist.reads = 0
    /\ AfterLoad => hist.reads = 1
    /\ hist.writes = 1 =>
          /\ pc \in {"outreach", "done"}
          /\ idx = Len(messages_to_analyze) + 1
          /\ unique_jobs # << >> =>
                (hist.appended # {} /\ StoreEndsWith(unique_jobs) /\ hist.emailed)
    /\ hist.writes = 0 => cursorFile = hist.cursorBefore
    /\ pc = "failed" => (hist.writes = 0 /\ cursorFile = hist.cursorBefore)

C5_Witness ==
    /\ pc = "done"
    /\ hist.reads = 1
    /\ hist.writes = 1
    /\ hist.emailed
    /\ Len(unique_jobs) = 2
    /\ cursorFile # hist.cursorBefore

FullDataRows == { k \in 2..Len(sheet) : Len(sheet[k]) >= 7 }

FailedRunMessages == { q[1] : q \in hist.prevFailAppended }

AfterFilter ==
    pc \in {"analyze", "sheet", "dedup", "append", "email", "save",
            "early_outreach", "outreach", "done"}

\* C10: the messages passed to classification are the deduplicated messages
\* with a timestamp strictly greater than the loaded cursor, in their order;
\* all the deduplicated messages when no cursor was loaded.
C10_CutoffFilter ==
    AfterFilter =>
        LET deduped == deduplicate_messages(all_messages)
        IN messages_to_analyze =
              IF last_processed.some
              THEN PickIndices(deduped, { i \in DOMAIN deduped :
                                            deduped[i].timestamp > last_processed.ts })
              ELSE deduped

C10_Witness ==
    /\ pc = "analyze"
    /\ last_processed = [some |-> TRUE, ts |-> 1]
    /\ all_messages = << MsgY1, MsgX2 >>
    /\ messages_to_analyze = << MsgX2 >>

(***************************************************************************)
(* SpecMsgDedup: deduplicate_messages applied to a message sequence drawn  *)
(* from a bounded set, then to its own output.                             *)
(***************************************************************************)
\* The text of MsgX1 with blanks around it.
MsgX1Pad == Msg(<< "s" >>, 1, << " ","x"," " >>)
\* A '|' in the text, and a '|' in the sender.
MsgBarText == Msg(<< "a" >>, 1, << "b","|","0","2",":","0","0","|","c" >>)
MsgBarSender == Msg(<< "a","|","0","1",":","0","0","|","b" >>, 2, << "c" >>)

DedupMsgPool == { MsgX1, MsgX1Pad, MsgY1, MsgX2, MsgBarText, MsgBarSender }

InitMsgDedup ==
    /\ pc = "mdedup_call"
    /\ OutreachIdle
    /\ all_messages \in SeqsUpTo(DedupMsgPool, MaxInput)
    /\ dedup_out = << >>
    /\ dedup_again = << >>
    /\ run = 0
    /\ env = GoodEnv
    /\ cursorFile = AbsentFile
    /\ sheet = << >>
    /\ last_processed = NoCursor
    /\ messages_to_analyze = << >>
    /\ idx = 0
    /\ relevant_jobs = << >>
    /\ unique_jobs = << >>
    /\ a_in = NoAnalysisIn
    /\ a_out = NoAnalysisOut
    /\ hist = NoHist
    /\ header = NoHeader
    /\ parsed = NoParsed
    /\ raw_messages = << >>
    /\ parsed_messages = << >>
    /\ page = NoPage
    /\ loop = NoLoop

\* main.py:593-602: the argument is read, the result is a new list.
DedupMessages ==
    /\ pc = "mdedup_call"
    /\ dedup_out' = deduplicate_messages(all_messages)
    /\ pc' = "mdedup_done"
    /\ UNCHANGED << dedup_again, header, parsed, raw_messages, parsed_messages, page, loop >>
    /\ UNCHANGED runVars
    /\ UNCHANGED outreachVars

\* deduplicate_messages applied to what it returned.
DedupMessagesAgain ==
    /\ pc = "mdedup_done"
    /\ dedup_again' = deduplicate_messages(dedup_out)
    /\ pc' = "mdedup_again"
    /\ UNCHANGED << dedup_out, header, parsed, raw_messages, parsed_messages, page, loop >>
    /\ UNCHANGED runVars
    /\ UNCHANGED outreachVars

NextMsgDedup == DedupMessages \/ DedupMessagesAgain

SpecMsgDedup == InitMsgDedup /\ [][NextMsgDedup]_vars

(***************************************************************************)
(* Claims about deduplicate_messages (SpecMsgDedup).                       *)
(***************************************************************************)
\* C11: deduplicate_messages applied to its own output returns that output.
C11_Idempotent ==
    pc = "mdedup_again" => dedup_again = dedup_out

C11_Witness ==
    /\ pc = "mdedup_again"
    /\ all_messages = << MsgX1, MsgX1Pad, MsgX1 >>
    /\ dedup_out = << MsgX1 >>
    /\ dedup_again = << MsgX1 >>

\* Indices of the first occurrence of each dedup key.
FirstKeyIndices(messages) ==
    { i \in DOMAIN messages :
        \A j \in 1..(i - 1) : message_dedup_key(messages[j]) # message_dedup_key(messages[i]) }

MessageKeys(messages) == { message_dedup_key(messages[i]) : i \in DOMAIN messages }

\* C12: the call leaves its argument as it was and returns the subsequence of
\* the first occurrences of each key, in input order: no two messages of the
\* output share a key and every key of the input is a key of the output.
C12_FirstSeenOrder ==
    [][pc = "mdedup_call" =>
          /\ all_messages' = all_messages
          /\ dedup_out' = PickIndices(all_messages, FirstKeyIndices(all_messages))
          /\ \A m, n \in DOMAIN dedup_out' :
                 m # n => message_dedup_key(dedup_out'[m]) # message_dedup_key(dedup_out'[n])
          /\ MessageKeys(dedup_out') = MessageKeys(all_messages)]_vars

C12_Witness ==
    /\ pc = "mdedup_done"
    /\ all_messages = << MsgX2, MsgX1, MsgX2 >>
    /\ dedup_out = << MsgX2, MsgX1 >>

\* Same sender, same timestamp and same trimmed text.
SameTuple(m1, m2) ==
    /\ m1.sender = m2.sender
    /\ m1.timestamp = m2.timestamp
    /\ Strip(m1.text) = Strip(m2.text)

\* C13: a message is dropped only if an earlier message of the input has the
\* same sender, timestamp and trimmed text: the first message with its
\* (sender, timestamp, trimmed text) is in the output, also when senders and
\* texts contain '|'.
C13_KeyIdentifiesTuple ==
    pc = "mdedup_done" =>
        \A i \in DOMAIN all_messages :
            (\A j \in 1..(i - 1) : ~SameTuple(all_messages[j], all_messages[i]))
                => \E k \in DOMAIN dedup_out : dedup_out[k] = all_messages[i]

(***************************************************************************)
(* Header parsing.  An instant is a number of minutes computed from the    *)
(* calendar fields, so that instants compare as datetimes do.              *)
(***************************************************************************)
Instant(year, month, day, hour, minute) ==
    ((((year * 12 + (month - 1)) * 31 + (day - 1)) * 24 + hour) * 60) + minute

\* The index of the first element of s at or after `from` that is in C; 0 if none.
RECURSIVE FirstIndex(_, _, _)
FirstIndex(s, from, C) ==
    IF from > Len(s) THEN 0
    ELSE IF s[from] \in C THEN from
    ELSE FirstIndex(s, from + 1, C)

\* s.split(c)
RECURSIVE SplitOn(_, _)
SplitOn(s, c) ==
    LET i == FirstIndex(s, 1, {c})
    IN IF i = 0 THEN << s >>
       ELSE << SubSeq(s, 1, i - 1) >> \o SplitOn(SubSeq(s, i + 1, Len(s)), c)

\* The maximal runs of non-blank characters of s (the fields a format's
\* whitespace, matched as \s+, separates).
RECURSIVE Words(_)
Words(s) ==
    LET t == LStrip(s)
        i == FirstIndex(t, 1, {" ", "\t", "\n"})
    IN IF t = << >> THEN << >>
       ELSE IF i = 0 THEN << t >>
       ELSE << SubSeq(t, 1, i - 1) >> \o Words(SubSeq(t, i, Len(t)))

IsNumber(f) == f # << >> /\ \A i \in DOMAIN f : IsDigit(f[i])

RECURSIVE NumValue(_)
NumValue(f) ==
    IF f = << >> THEN 0
    ELSE 10 * NumValue(SubSeq(f, 1, Len(f) - 1)) + DigitValue(f[Len(f)])

IsLeap(year) == (year % 4 = 0 /\ year % 100 # 0) \/ year % 400 = 0

DaysInMonth(year, month) ==
    IF month = 2 THEN (IF IsLeap(year) THEN 29 ELSE 28)
    ELSE IF month \in {4, 6, 9, 11} THEN 30 ELSE 31

\* A strptime format of the list: the order of day and month, the width of the
\* year (%Y or %y) and the clock (%I:%M %p or %H:%M).
Format(day_first, year4, clock12) ==
    [day_first |-> day_first, year4 |-> year4, clock12 |-> clock12]

date_formats_dayfirst ==
    << Format(TRUE, TRUE, TRUE), Format(FALSE, TRUE, TRUE),
       Format(TRUE, FALSE, TRUE), Format(FALSE, FALSE, TRUE),
       Format(TRUE, TRUE, FALSE), Format(FALSE, TRUE, FALSE),
       Format(TRUE, FALSE, FALSE), Format(FALSE, FALSE, FALSE) >>

\* main.py:184-193, in the order of the list.
date_formats ==
    << Format(FALSE, TRUE, TRUE), Format(TRUE, TRUE, TRUE),
       Format(FALSE, FALSE, TRUE), Format(TRUE, FALSE, TRUE),
       Format(FALSE, TRUE, FALSE), Format(TRUE, TRUE, FALSE),
       Format(FALSE, FALSE, FALSE), Format(TRUE, FALSE, FALSE) >>

NoInstant == [ok |-> FALSE, ts |-> 0]

\* strptime, once the text is split into numbers: ranges, the year of a
\* two-digit year, the hour of a 12-hour clock, a day the month has.
strptime_values(month, day, yy, hh, minute, pm, fmt) ==
    LET year == IF fmt.year4 THEN yy ELSE IF yy <= 68 THEN 2000 + yy ELSE 1900 + yy
        hour == IF ~fmt.clock12 THEN hh
                ELSE IF hh = 12 THEN (IF pm THEN 12 ELSE 0)
                ELSE IF pm THEN hh + 12 ELSE hh
    IN IF month < 1 \/ month > 12 THEN NoInstant
       ELSE IF day < 1 \/ day > DaysInMonth(year, month) THEN NoInstant
       ELSE IF fmt.year4 /\ year < 1 THEN NoInstant
       ELSE IF fmt.clock12 /\ (hh < 1 \/ hh > 12) THEN NoInstant
       ELSE IF hh > 23 \/ minute > 59 THEN NoInstant
       ELSE [ok |-> TRUE, ts |-> Instant(year, month, day, hour, minute)]

\* strptime, given the fields of the date (d), of the time (t) and the
\* meridiem in lower case: numbers of one or two digits, a year of exactly
\* four (%Y) or two (%y) digits, am or pm.
strptime_fields(d, t, meridiem, fmt) ==
    IF Len(d) # 3 \/ Len(t) # 2 THEN NoInstant
    ELSE IF \E f \in {d[1], d[2], d[3], t[1], t[2]} : ~IsNumber(f) THEN NoInstant
    ELSE IF \E f \in {d[1], d[2], t[1], t[2]} : Len(f) > 2 THEN NoInstant
    ELSE IF Len(d[3]) # (IF fmt.year4 THEN 4 ELSE 2) THEN NoInstant
    ELSE IF fmt.clock12 /\ meridiem \notin { << "a","m" >>, << "p","m" >> } THEN NoInstant
    ELSE strptime_values(NumValue(IF fmt.day_first THEN d[2] ELSE d[1]),
                         NumValue(IF fmt.day_first THEN d[1] ELSE d[2]),
                         NumValue(d[3]), NumValue(t[1]), NumValue(t[2]),
                         meridiem = << "p","m" >>, fmt)

\* strptime, given the blank-separated words of the text: date, time and,
\* with a 12-hour clock, the meridiem; the whole text must match.
strptime_words(words, fmt) ==
    IF Len(words) # (IF fmt.clock12 THEN 3 ELSE 2) THEN NoInstant
    ELSE strptime_fields(SplitOn(words[1], "/"), SplitOn(words[2], ":"),
                         IF fmt.clock12 THEN Lower(words[3]) ELSE << >>, fmt)

\* datetime.strptime(combined, fmt): [ok, ts]; not ok stands for ValueError.
strptime(combined, fmt) == strptime_words(Words(combined), fmt)

first_format_nocatch(combined, k) ==
    LET r == strptime(combined, date_formats[k])
    IN [raised |-> ~r.ok, ok |-> r.ok, ts |-> r.ts]

RECURSIVE first_format_last(_, _)
first_format_last(combined, k) ==
    IF k > Len(date_formats) THEN [raised |-> FALSE, ok |-> FALSE, ts |-> 0]
    ELSE LET later == first_format_last(combined, k + 1)
             r == strptime(combined, date_formats[k])
         IN IF later.ok THEN later
            ELSE [raised |-> FALSE, ok |-> r.ok, ts |-> r.ts]

\* The for loop over date_formats: [raised, ok, ts].  The first format that
\* parses wins; the ValueError of a format that does not is caught.
RECURSIVE first_format(_, _)
RECURSIVE first_format_try(_, _, _)
first_format(combined, k) ==
    IF k > Len(date_formats) THEN [raised |-> FALSE, ok |-> FALSE, ts |-> 0]
    ELSE first_format_try(strptime(combined, date_formats[k]), combined, k)

\* One iteration: break with the parsed datetime, or continue.
first_format_try(r, combined, k) ==
    IF r.ok THEN [raised |-> FALSE, ok |-> TRUE, ts |-> r.ts]
    ELSE first_format(combined, k + 1)

\* The groups of the pattern, given where the time ends (comma) and where
\* the date ends (close): [matched, time, date, sender].
header_groups(s, comma, close) ==
    LET none == [matched |-> FALSE, time |-> << >>, date |-> << >>, sender |-> << >>]
    IN IF comma <= 2 \/ s[comma] # "," THEN none
       ELSE IF comma + 1 > Len(s) \/ ~IsSpace(s[comma + 1]) THEN none
       ELSE IF close <= comma + 2 THEN none
       ELSE IF close + 1 >= Len(s) \/ ~IsSpace(s[close + 1]) THEN none
       ELSE IF \E i \in (close + 2)..(Len(s) - 1) : s[i] = "\n" THEN none
       ELSE [matched |-> TRUE,
             time |-> SubSeq(s, 2, comma - 1),
             date |-> SubSeq(s, comma + 2, close - 1),
             sender |-> SubSeq(s, close + 2, Len(s) - 1)]

header_close(s, comma) == header_groups(s, comma, FirstIndex(s, comma + 2, {"]"}))

\* re.match(r"^\[(?P<time>[^,\]]+),\s(?P<date>[^\]]+)\]\s(?P<sender>.*?):\s?$", s)
\* for a stripped s: the time runs to the first ',' (and holds no ']'), the
\* date to the first ']', the sender to the ':' that ends the text.
header_match(s) ==
    IF Len(s) < 2 \/ s[1] # "[" \/ s[Len(s)] # ":"
    THEN [matched |-> FALSE, time |-> << >>, date |-> << >>, sender |-> << >>]
    ELSE header_close(s, FirstIndex(s, 2, {",", "]"}))

\* main.py:203-206: None when no format parsed, else sender and timestamp.
parse_result(sender, parsed_dt) ==
    IF parsed_dt.raised THEN [NoParsed EXCEPT !.raised = TRUE]
    ELSE IF ~parsed_dt.ok THEN NoParsed
    ELSE [raised |-> FALSE, matched |-> TRUE, sender |-> sender, timestamp |-> parsed_dt.ts]

\* main.py:177-201: None when the pattern did not match; else the groups are
\* stripped and f"{date_part} {time_part}" is tried against the formats.
parse_groups(match) ==
    IF ~match.matched THEN NoParsed
    ELSE parse_result(Strip(match.sender),
                      first_format(Strip(match.date) \o << " " >> \o Strip(match.time), 1))

\* parse_pre_plain_text: [raised, matched, sender, timestamp]; not matched
\* stands for None.
parse_pre_plain_text(pre_plain_text) == parse_groups(header_match(Strip(pre_plain_text)))

\* The for loop of scrape_messages over the nodes: [raised, messages].
RECURSIVE parsed_loop(_, _)
RECURSIVE parsed_item(_, _, _, _)
parsed_loop(items, acc) ==
    IF items = << >> THEN [raised |-> FALSE, messages |-> acc]
    ELSE parsed_item(items, acc, parse_pre_plain_text(Head(items).pre_plain_text),
                     Strip(Head(items).text))

\* One iteration: skip the node when the header did not parse or the text is empty.
parsed_item(items, acc, got, text) ==
    IF got.raised THEN [raised |-> TRUE, messages |-> acc]
    ELSE IF ~got.matched \/ text = << >> THEN parsed_loop(Tail(items), acc)
    ELSE parsed_loop(Tail(items), Append(acc, Msg(got.sender, got.timestamp, text)))

\* main.py:253: parsed_messages.sort(key=timestamp)
sorted_messages(got) == [raised |-> got.raised, messages |-> SortByTimestamp(got.messages)]

\* scrape_messages, given the nodes page.evaluate returned: [raised, messages].
scrape_messages(nodes) == sorted_messages(parsed_loop(nodes, << >>))

(***************************************************************************)
(* SpecHeader: parse_pre_plain_text applied to a header "[<time>, <date>]  *)
(* <sender>:" rendered from a date, a time and a sender with one of the    *)
(* formats of the list.                                                    *)
(***************************************************************************)
Digits4(n) == Digits2(n \div 100) \o Digits2(n % 100)

\* strftime with the date part of a format: %m, %d zero-padded, %Y or %y.
strftime_date(fmt, year, month, day) ==
    (IF fmt.day_first THEN Digits2(day) \o << "/" >> \o Digits2(month)
                      ELSE Digits2(month) \o << "/" >> \o Digits2(day))
    \o << "/" >> \o (IF fmt.year4 THEN Digits4(year) ELSE Digits2(year % 100))

\* strftime with the time part of a format: %I:%M %p or %H:%M.
strftime_time(fmt, hour, minute) ==
    IF fmt.clock12
    THEN Digits2(IF hour % 12 = 0 THEN 12 ELSE hour % 12) \o << ":" >> \o Digits2(minute)
         \o << " " >> \o (IF hour < 12 THEN << "A","M" >> ELSE << "P","M" >>)
    ELSE Digits2(hour) \o << ":" >> \o Digits2(minute)

\* The header text the platform shows: "[<time>, <date>] <sender>: ".
synthesized_header(fmt, year, month, day, hour, minute, sender) ==
    << "[" >> \o strftime_time(fmt, hour, minute) \o << ",", " " >>
    \o strftime_date(fmt, year, month, day) \o << "]", " " >> \o sender \o << ":", " " >>

DatePool == { << 2026, 1, 2 >>, << 2026, 1, 13 >>, << 2026, 3, 3 >>,
              << 2026, 12, 25 >>, << 2024, 2, 29 >>, << 1950, 6, 20 >> }
TimePool == { << 9, 0 >>, << 21, 30 >>, << 0, 5 >>, << 12, 0 >> }
SenderPool == { << "A","l" >>, << "a",":","b" >>, << "x","|","y" >> }

HeaderOf(k, date, time, sender) ==
    [fmt |-> k, template |-> date_formats[k],
     year |-> date[1], month |-> date[2], day |-> date[3],
     hour |-> time[1], minute |-> time[2], sender |-> sender,
     pre_plain_text |-> synthesized_header(date_formats[k], date[1], date[2], date[3],
                                           time[1], time[2], sender)]

InitHeader ==
    /\ pc = "parse_call"
    /\ OutreachIdle
    /\ header \in { HeaderOf(k, date, time, sender) :
                      k \in DOMAIN date_formats, date \in DatePool,
                      time \in TimePool, sender \in SenderPool }
    /\ parsed = NoParsed
    /\ dedup_out = << >>
    /\ dedup_again = << >>
    /\ raw_messages = << >>
    /\ parsed_messages = << >>
    /\ page = NoPage
    /\ loop = NoLoop
    /\ run = 0
    /\ env = GoodEnv
    /\ cursorFile = AbsentFile
    /\ sheet = << >>
    /\ last_processed = NoCursor
    /\ all_messages = << >>
    /\ messages_to_analyze = << >>
    /\ idx = 0
    /\ relevant_jobs = << >>
    /\ unique_jobs = << >>
    /\ a_in = NoAnalysisIn
    /\ a_out = NoAnalysisOut
    /\ hist = NoHist

\* main.py:171-206
ParseHeader ==
    /\ pc = "parse_call"
    /\ parsed' = parse_pre_plain_text(header.pre_plain_text)
    /\ pc' = IF parsed'.raised THEN "parse_raised" ELSE "parse_done"
    /\ UNCHANGED << dedup_out, dedup_again, header, raw_messages, parsed_messages, page, loop >>
    /\ UNCHANGED runVars
    /\ UNCHANGED outreachVars

\* main.py:171-206: the same header is parsed again (a later round renders
\* the bubble again).
ParseHeaderAgain ==
    /\ pc = "parse_done"
    /\ parsed' = parse_pre_plain_text(header.pre_plain_text)
    /\ pc' = IF parsed'.raised THEN "parse_raised" ELSE "parse_again"
    /\ UNCHANGED << dedup_out, dedup_again, header, raw_messages, parsed_messages, page, loop >>
    /\ UNCHANGED runVars
    /\ UNCHANGED outreachVars

NextHeader == ParseHeader \/ ParseHeaderAgain

SpecHeader == InitHeader /\ [][NextHeader]_vars

(***************************************************************************)
(* Claims about parse_pre_plain_text (SpecHeader).                         *)
(***************************************************************************)
\* A two-digit year is read back as a year of 1969..2068.
YearReadsBack(h) == h.template.year4 \/ (h.year >= 1969 /\ h.year <= 2068)

\* C14 as stated (already for the years a two-digit year reads back): with
\* each of the 8 formats, the synthesized header parses to exactly the sender
\* and the timestamp it was made from.
C14_RoundTrip ==
    (pc = "parse_done" /\ YearReadsBack(header)) =>
        /\ parsed.matched
        /\ parsed.sender = header.sender
        /\ parsed.timestamp =
              Instant(header.year, header.month, header.day, header.hour, header.minute)

\* C14, amended: the synthesized header parses to exactly the sender and the
\* timestamp it was made from with the four month-first formats, and with the
\* four day-first formats when the day is greater than 12 or equal to the
\* month; with a day-first format and a day of at most 12 it parses to the
\* timestamp with day and month exchanged.
C14_RoundTripUnlessAmbiguous ==
    (pc = "parse_done" /\ YearReadsBack(header)) =>
        /\ parsed.matched
        /\ parsed.sender = header.sender
        /\ parsed.timestamp =
              IF header.template.day_first /\ header.day <= 12
              THEN Instant(header.year, header.day, header.month, header.hour, header.minute)
              ELSE Instant(header.year, header.month, header.day, header.hour, header.minute)

C14_Witness ==
    /\ pc = "parse_done"
    /\ header.template = Format(TRUE, TRUE, TRUE)
    /\ header.pre_plain_text =
          << "[","0","9",":","0","0"," ","A","M",","," ",
             "0","2","/","0","1","/","2","0","2","6","]"," ","A","l",":"," " >>
    /\ parsed.matched
    /\ parsed.sender = << "A","l" >>
    /\ parsed.timestamp = Instant(2026, 2, 1, 9, 0)

\* The numbers the date text shows first and second.
FirstNumber(h) == IF h.template.day_first THEN h.day ELSE h.month
SecondNumber(h) == IF h.template.day_first THEN h.month ELSE h.day

\* The text the formats are tried on: "<date> <time>".
CombinedOf(h) ==
    strftime_date(h.template, h.year, h.month, h.day) \o << " " >>
    \o strftime_time(h.template, h.hour, h.minute)

HeaderParsed == pc \in {"parse_done", "parse_again"}

\* The result is that of the first format of the list that parses the text.
C27_FirstWins ==
    HeaderParsed =>
        \E k \in DOMAIN date_formats :
            /\ strptime(CombinedOf(header), date_formats[k]).ok
            /\ \A j \in 1..(k - 1) : ~strptime(CombinedOf(header), date_formats[j]).ok
            /\ parsed.matched
            /\ parsed.timestamp = strptime(CombinedOf(header), date_formats[k]).ts

\* A date whose first two numbers are both months is read month first.
C27_MonthFirst ==
    (HeaderParsed /\ YearReadsBack(header)
        /\ FirstNumber(header) <= 12 /\ SecondNumber(header) <= 12) =>
            parsed.timestamp = Instant(header.year, FirstNumber(header), SecondNumber(header),
                                       header.hour, header.minute)

\* C27: the formats are tried in the order of the list and the first that
\* parses wins, so a date text that is valid month-first and day-first is
\* read month-first; parsing the same header again gives the same result.
C27_FixedOrder ==
    /\ []C27_FirstWins
    /\ []C27_MonthFirst
    /\ [][pc = "parse_done" => (pc' = "parse_again" /\ parsed' = parsed)]_vars

C27_Witness ==
    /\ pc = "parse_again"
    /\ header.template = Format(TRUE, TRUE, FALSE)
    /\ header.day = 2
    /\ header.month = 1
    /\ header.year = 2026
    /\ parsed.timestamp = Instant(2026, 2, 1, header.hour, header.minute)

(***************************************************************************)
(* SpecScrape: scrape_messages applied to the nodes of a viewport drawn    *)
(* from a bounded set.  A node carries, beside the header and body text    *)
(* the page shows, what it was made from (observation only).               *)
(***************************************************************************)
Node(pre_plain_text, text, collect, message) ==
    [pre_plain_text |-> pre_plain_text, text |-> text,
     collect |-> collect, message |-> message]

NoMessage == Msg(<< >>, 0, << >>)

\* A node rendered from a sender, a date, a time and a body text.
GoodNode(k, date, time, sender, text) ==
    Node(synthesized_header(date_formats[k], date[1], date[2], date[3],
                            time[1], time[2], sender),
         text, TRUE,
         Msg(sender, Instant(date[1], date[2], date[3], time[1], time[2]), Strip(text)))

NodeHi == GoodNode(1, << 2026, 1, 2 >>, << 9, 0 >>, << "A","l" >>, << "h","i" >>)
NodeYo == GoodNode(5, << 2026, 1, 1 >>, << 21, 30 >>, << "a",":","b" >>, << " ","y","o"," " >>)
NodeDayFirst == GoodNode(8, << 2026, 1, 13 >>, << 9, 0 >>, << "A","l" >>, << "o","k" >>)
\* A good header over an empty body.
NodeNoText ==
    Node(NodeHi.pre_plain_text, << " "," " >>, FALSE, NoMessage)
\* Headers the pattern does not match: no bracket; no comma after the time.
NodeNoBracket ==
    Node(<< "A","l",":"," " >>, << "h","i" >>, FALSE, NoMessage)
NodeNoComma ==
    Node(<< "[","0","9",":","0","0"," ","0","1","/","0","2","/","2","0","2","6","]",
            " ","A","l",":"," " >>, << "h","i" >>, FALSE, NoMessage)
\* Headers no format parses: month and day 13; a date with dots.
NodeNoMonth ==
    Node(<< "[","0","9",":","0","0",","," ","1","3","/","1","3","/","2","0","2","6","]",
            " ","A","l",":"," " >>, << "h","i" >>, FALSE, NoMessage)
NodeDots ==
    Node(<< "[","0","9",":","0","0",","," ","0","2",".","0","1",".","2","6","]",
            " ","A","l",":"," " >>, << "h","i" >>, FALSE, NoMessage)

NodePool == { NodeHi, NodeYo, NodeDayFirst, NodeNoText,
              NodeNoBracket, NodeNoComma, NodeNoMonth, NodeDots }

InitScrape ==
    /\ pc = "scrape_call"
    /\ OutreachIdle
    /\ raw_messages \in SeqsUpTo(NodePool, MaxInput)
    /\ parsed_messages = << >>
    /\ header = NoHeader
    /\ parsed = NoParsed
    /\ dedup_out = << >>
    /\ dedup_again = << >>
    /\ page = NoPage
    /\ loop = NoLoop
    /\ run = 0
    /\ env = GoodEnv
    /\ cursorFile = AbsentFile
    /\ sheet = << >>
    /\ last_processed = NoCursor
    /\ all_messages = << >>
    /\ messages_to_analyze = << >>
    /\ idx = 0
    /\ relevant_jobs = << >>
    /\ unique_jobs = << >>
    /\ a_in = NoAnalysisIn
    /\ a_out = NoAnalysisOut
    /\ hist = NoHist

\* main.py:209-255
ScrapeMessages ==
    /\ pc = "scrape_call"
    /\ \E got \in { scrape_messages(raw_messages) } :
          /\ parsed_messages' = got.messages
          /\ pc' = IF got.raised THEN "scrape_raised" ELSE "scrape_done"
    /\ UNCHANGED << dedup_out, dedup_again, header, parsed, raw_messages, page, loop >>
    /\ UNCHANGED runVars
    /\ UNCHANGED outreachVars

NextScrape == ScrapeMessages

SpecScrape == InitScrape /\ [][NextScrape]_vars

(***************************************************************************)
(* Claims about scrape_messages (SpecScrape).                              *)
(***************************************************************************)
\* How many times m is among the messages the viewport's nodes were made from.
TimesRendered(m) ==
    Cardinality({ i \in DOMAIN raw_messages :
                    raw_messages[i].collect /\ raw_messages[i].message = m })

TimesCollected(m) ==
    Cardinality({ i \in DOMAIN parsed_messages : parsed_messages[i] = m })

\* C15: scrape_messages does not raise; a node whose header the pattern does
\* not match, or whose date and time no format parses, adds nothing to the
\* result, and every node with a parsable header and a non-empty body is in
\* the result, as many times as it is in the viewport.
C15_ParseDropSilent ==
    /\ pc # "scrape_raised"
    /\ pc = "scrape_done" =>
          /\ \A i \in DOMAIN raw_messages :
                TimesCollected(raw_messages[i].message) =
                    TimesRendered(raw_messages[i].message)
          /\ \A k \in DOMAIN parsed_messages : TimesRendered(parsed_messages[k]) > 0

C15_Witness ==
    /\ pc = "scrape_done"
    /\ raw_messages = << NodeNoMonth, NodeHi, NodeNoBracket >>
    /\ parsed_messages = << NodeHi.message >>

(***************************************************************************)
(* SpecCollect: the scroll-and-collect loop of scrape_all_loaded_messages  *)
(* against a live view.  page.rendered is what scrape_messages returns for *)
(* the nodes now in the document; each scroll may render other nodes.      *)
(* Time is counted in rounds' worth of seconds; the budget (30 s by        *)
(* default) is drawn from 1..MaxBudget.                                    *)
(***************************************************************************)
Range(s) == { s[i] : i \in DOMAIN s }

\* A long message, and what its bubble shows while it is collapsed.
MsgLong == Msg(<< "s" >>, 3, << "x","y" >>)
MsgLongCut == Msg(<< "s" >>, 3, << "x" >>)

\* Viewports, each in timestamp order as scrape_messages returns it.
ViewPool == { << >>, << MsgX2 >>, << MsgY1 >>, << MsgX1, MsgX2 >>,
              << MsgX1, MsgX1 >>, << MsgY1, MsgX2 >>,
              << MsgLongCut >>, << MsgLong >> }

InitCollect ==
    /\ pc = "collect_loop"
    /\ OutreachIdle
    /\ \E view \in ViewPool : page = [rendered |-> view, shown |-> Range(view)]
    /\ \E budget \in 1..MaxBudget :
          loop = [all_messages |-> << >>, round_idx |-> 0, elapsed |-> 0,
                  budget |-> budget, ended |-> "no", deduped |-> << >>]
    /\ header = NoHeader
    /\ parsed = NoParsed
    /\ dedup_out = << >>
    /\ dedup_again = << >>
    /\ raw_messages = << >>
    /\ parsed_messages = << >>
    /\ run = 0
    /\ env = GoodEnv
    /\ cursorFile = AbsentFile
    /\ sheet = << >>
    /\ last_processed = NoCursor
    /\ all_messages = << >>
    /\ messages_to_analyze = << >>
    /\ idx = 0
    /\ relevant_jobs = << >>
    /\ unique_jobs = << >>
    /\ a_in = NoAnalysisIn
    /\ a_out = NoAnalysisOut
    /\ hist = NoHist

loop_continues_inclusive(elapsed, budget) == elapsed <= budget

\* main.py:338: while (time.time() - start_time) < scroll_duration_seconds
loop_continues(elapsed, budget) == elapsed < budget

\* main.py:338-365: one round of the while loop: scrape the viewport, extend
\* all_messages, scroll up, break when no container was found or it is at top.
ScrollRound ==
    /\ pc = "collect_loop"
    /\ loop_continues(loop.elapsed, loop.budget)
    /\ \E found \in BOOLEAN, at_top \in BOOLEAN, view \in ViewPool, dt \in 1..2 :
          /\ (~found) => (~at_top /\ view = page.rendered)
          /\ page' = [rendered |-> view, shown |-> page.shown \cup Range(view)]
          /\ loop' = [loop EXCEPT !.all_messages = @ \o page.rendered,
                                  !.round_idx = @ + 1,
                                  !.elapsed = @ + dt,
                                  !.ended = IF ~found THEN "no_container"
                                            ELSE IF at_top THEN "at_top" ELSE "no"]
          /\ pc' = IF found /\ ~at_top THEN "collect_loop" ELSE "collect_finish"
    /\ UNCHANGED << dedup_out, dedup_again, header, parsed, raw_messages, parsed_messages >>
    /\ UNCHANGED runVars
    /\ UNCHANGED outreachVars

\* main.py:367-378: after the loop (left by break or because the budget is
\* used up): deduplicate, sort, return.
FinishCollect ==
    /\ \/ pc = "collect_finish"
       \/ pc = "collect_loop" /\ ~loop_continues(loop.elapsed, loop.budget)
    /\ loop' = [loop EXCEPT !.deduped = collected(loop.all_messages),
                            !.ended = IF @ = "no" THEN "budget" ELSE @]
    /\ pc' = "collect_done"
    /\ UNCHANGED << dedup_out, dedup_again, header, parsed, raw_messages,
                    parsed_messages, page >>
    /\ UNCHANGED runVars
    /\ UNCHANGED outreachVars

NextCollect == ScrollRound \/ FinishCollect

SpecCollect == InitCollect /\ [][NextCollect]_vars

(***************************************************************************)
(* Claims about scrape_all_loaded_messages (SpecCollect).                  *)
(***************************************************************************)
\* C16: in the returned list no two messages have the same dedup key and the
\* timestamps do not decrease, whatever the rounds rendered.
C16_DedupedAndOrdered ==
    pc = "collect_done" =>
        /\ \A m, n \in DOMAIN loop.deduped :
              m # n => message_dedup_key(loop.deduped[m]) # message_dedup_key(loop.deduped[n])
        /\ \A m, n \in DOMAIN loop.deduped :
              m < n => loop.deduped[m].timestamp <= loop.deduped[n].timestamp
        /\ Range(loop.deduped) = Range(loop.all_messages)

C16_Witness ==
    /\ pc = "collect_done"
    /\ loop.round_idx = 3
    /\ loop.all_messages = << MsgX2, MsgX1, MsgX2, MsgY1 >>
    /\ loop.deduped = << MsgX1, MsgY1, MsgX2 >>

\* C17: when the loop ended because the container reported at-top, the
\* returned list holds every message rendered at a position reached during
\* collection, the top position reached by the last scroll included.
C17_MaximalAtTop ==
    (pc = "collect_done" /\ loop.ended = "at_top") =>
        page.shown \subseteq Range(loop.deduped)

\* SpecCollectLive: the same loop, where a step that can be taken is taken:
\* each call of the page and each wait returns.
SpecCollectLive == InitCollect /\ [][NextCollect]_vars /\ WF_vars(NextCollect)

\* Between rounds: the loop has not been left and no round has ended it.
C26_LoopState ==
    /\ pc = "collect_loop" => loop.ended = "no"
    /\ loop.ended \in {"no_container", "at_top"} => pc \in {"collect_finish", "collect_done"}
    /\ loop.round_idx <= loop.budget
    /\ (pc = "collect_done" /\ loop.ended = "budget") => loop.elapsed >= loop.budget

\* A step that starts a round.
C26_RoundStarts ==
    loop'.round_idx = loop.round_idx + 1 =>
        /\ loop.elapsed < loop.budget
        /\ loop.ended = "no"
        /\ pc = "collect_loop"

\* C26: a round starts only while the elapsed time is below the budget and
\* no earlier round missed the container or reached the top; the loop is
\* left as soon as one of the three fails, the number of rounds does not
\* exceed the budget (a round takes time), and collection returns.
C26_LoopBounded ==
    /\ []C26_LoopState
    /\ [][C26_RoundStarts]_vars
    /\ <>(pc = "collect_done")

C26_Witness ==
    /\ pc = "collect_done"
    /\ loop.ended = "budget"
    /\ loop.budget >= 2
    /\ loop.round_idx = loop.budget

\* The bubble a rendered message belongs to: the collapsed and the expanded
\* rendering of the long message are one bubble.
BubbleOf(m) == IF m = MsgLongCut THEN MsgLong ELSE m

\* C29: the returned list holds at most one message of each bubble, however
\* many rounds rendered it, collapsed in one round and expanded in a later
\* one included.
C29_OnePerBubble ==
    pc = "collect_done" =>
        \A i, j \in DOMAIN loop.deduped :
            BubbleOf(loop.deduped[i]) = BubbleOf(loop.deduped[j]) => i = j

(***************************************************************************)
(* Claims about the failures of a run of main() (Spec).                    *)
(***************************************************************************)
\* C18: a run that fails after it has collected a transcript does not fail
\* for its configuration: with a required variable missing or an API key that
\* is absent or a placeholder, the failure comes before collection begins.
C18_ConfigFailsBeforeCollection ==
    (pc = "failed" /\ all_messages # << >>) =>
        (env.complete /\ KeyConfigured(env.api_key))

(***************************************************************************)
(* SpecLoad: the start of a run, from load_last_processed_timestamp to the *)
(* cutoff filter, over the contents the cursor file can have.              *)
(***************************************************************************)
MaxStamp == 5

StampChars == { "0", "1", ":" }

CursorFileOf(v) == [exists |-> TRUE, text |-> JsonText(v)]

\* Absent, not JSON, JSON that is not an object, an object without the field,
\* the field null, false, true, or a text (empty, an instant, or neither).
LoadFilePool ==
    { AbsentFile,
      [exists |-> TRUE, text |-> NotJson],
      CursorFileOf(JArray),
      CursorFileOf(JObject({})),
      CursorFileOf(JObject({ << CursorField, JNull >> })),
      CursorFileOf(JObject({ << CursorField, JBool(FALSE) >> })),
      CursorFileOf(JObject({ << CursorField, JBool(TRUE) >> })) }
    \cup { CursorFileOf(JObject({ << CursorField, JStr(s) >> })) :
             s \in SeqsUpTo(StampChars, MaxStamp) }

InitLoad ==
    /\ pc = "load"
    /\ OutreachIdle
    /\ run = 1
    /\ env = GoodEnv
    /\ cursorFile \in LoadFilePool
    /\ sheet = << >>
    /\ last_processed = NoCursor
    /\ all_messages = << >>
    /\ messages_to_analyze = << >>
    /\ idx = 0
    /\ relevant_jobs = << >>
    /\ unique_jobs = << >>
    /\ a_in = NoAnalysisIn
    /\ a_out = NoAnalysisOut
    /\ hist = [NoHist EXCEPT !.cursorBefore = cursorFile]
    /\ ScrapeIdle

NextLoad == LoadCursor \/ GetAllMessages \/ FilterMessages

SpecLoad == InitLoad /\ [][NextLoad]_vars

(***************************************************************************)
(* Claims about load_last_processed_timestamp (SpecLoad).                  *)
(***************************************************************************)
\* The file holds a JSON object whose last_message_timestamp is the text of
\* an instant.
WellFormedCursor(file) ==
    /\ file.exists
    /\ file.text.valid
    /\ file.text.val.t = "object"
    /\ \E p \in file.text.val.obj :
          p[1] = CursorField /\ p[2].t = "str" /\ FromIsoformat(p[2].s).ok

\* C19: whatever the cursor file holds that is not a well-formed cursor
\* (absent, not JSON, not an object, field missing, empty, not a string, not
\* an instant), loading does not end the run, yields no cursor, and every
\* collected message is eligible.
C19_LoadNeverFatal ==
    (hist.reads = 1 /\ ~WellFormedCursor(cursorFile)) =>
        /\ pc # "failed"
        /\ ~last_processed.some
        /\ pc \in {"analyze", "early_outreach"} =>
              messages_to_analyze = deduplicate_messages(all_messages)

(***************************************************************************)
(* Claims about what a run of main() persists (Spec).                      *)
(***************************************************************************)
\* The run is past the classification loop and past the store.
AfterStore == pc \in {"email", "save", "outreach", "done"}

\* Messages of the run the service did not reject.
Accepted == { m \in Range(messages_to_analyze) : m \notin hist.rejected }

AllRejected ==
    /\ messages_to_analyze # << >>
    /\ Range(messages_to_analyze) \subseteq hist.rejected

\* C20: a message the service reported as not relevant, or whose
\* classification degraded to the default record, is the source of no appended
\* row and of no notified record, and the run adds no more rows than it has
\* messages that were not rejected; when every message of the run is rejected
\* the store is left as it was, nothing is notified, and the cursor is still
\* written with the newest timestamp.
C20_OnlyRelevantPersisted ==
    /\ \A q \in hist.appended : q[1] \notin hist.rejected
    /\ hist.emailed =>
          \A i \in DOMAIN unique_jobs : SourceMessage(unique_jobs[i]) \notin hist.rejected
    /\ AfterStore =>
          Len(sheet) - Len(ensure_sheet(hist.sheetBefore)) <= Cardinality(Accepted)
    /\ (AfterStore /\ AllRejected) =>
          /\ sheet = hist.sheetBefore
          /\ hist.appended = {}
          /\ ~hist.emailed
          /\ pc \in {"outreach", "done"} =>
                /\ hist.writes = 1
                /\ StoredCursor(cursorFile).some
                /\ IsMaxTimestamp(StoredCursor(cursorFile).ts, messages_to_analyze)

\* A run that rejected one message and appended a row for another.
C20_Witness ==
    /\ pc = "done"
    /\ Len(messages_to_analyze) = 2
    /\ Cardinality(hist.rejected) = 1
    /\ Cardinality(hist.appended) = 1
    /\ hist.emailed
    /\ Len(sheet) = Len(ensure_sheet(hist.sheetBefore)) + 1

\* A run in which every message was rejected.
C20_AllRejectedReached ==
    /\ pc = "done"
    /\ Len(messages_to_analyze) = 2
    /\ AllRejected
    /\ hist.writes = 1

\* Runs that returned: the cursor file was written, or the run ended early.
RunCompleted == pc \in {"outreach", "done"}

\* C23: a message whose classification exhausted its retries counts toward
\* the cursor: when its run has completed the cursor file holds an instant
\* not before the message's timestamp, and no later run submits the message to
\* classification, even when it is collected again.
C23_DegradedNeverRetried ==
    /\ RunCompleted =>
          \A m \in hist.degraded :
              /\ StoredCursor(cursorFile).some
              /\ StoredCursor(cursorFile).ts >= m.timestamp
    /\ \A m \in hist.prevDegraded : m \notin Range(messages_to_analyze)

\* A second run collects the degraded message of the first again, with newer ones.
C23_Witness ==
    /\ pc = "done"
    /\ run = 2
    /\ messages_to_analyze # << >>
    /\ \E m \in hist.prevDegraded : m \in Range(all_messages)

\* The rows of a batch, in batch order.
RowsOf(jobs) == [i \in DOMAIN jobs |-> JobRow(jobs[i])]

\* C24: the notification is sent after the append of the run returned and
\* carries exactly the deduplicated batch, whose rows are the rows the run
\* appended, in batch order; a run whose deduplicated batch is empty sends
\* none, and a run that completes with a non-empty one has sent it.
C24_NotifiesAppendedBatch ==
    /\ hist.emailed =>
          /\ pc \in {"save", "outreach", "done"}
          /\ hist.appended # {}
          /\ hist.notified = unique_jobs
          /\ hist.notified # << >>
          /\ sheet = ensure_sheet(hist.sheetBefore) \o RowsOf(hist.notified)
    /\ ~hist.emailed => hist.notified = << >>
    /\ unique_jobs = << >> => ~hist.emailed
    /\ (RunCompleted /\ unique_jobs # << >>) => hist.emailed

C24_Witness ==
    /\ pc = "done"
    /\ hist.emailed
    /\ Len(hist.notified) = 2
    /\ Len(relevant_jobs) = 2
    /\ hist.sheetBefore # << >>
    /\ Len(sheet) = Len(hist.sheetBefore) + 2

\* The record rows of the store: the rows after the first, which holds the header.
RecordRows(worksheet) == SubSeq(worksheet, 2, Len(worksheet))

\* The batch the run has appended so far.
AppendedJobs == IF hist.appended # {} THEN unique_jobs ELSE << >>

PersistedInstant(file) ==
    FromIsoformat((CHOOSE p \in file.text.val.obj : p[1] = CursorField)[2].s).ts

\* C30: in a run that starts with a well-formed cursor file no message with
\* a timestamp at or before the persisted instant is in the set submitted to
\* classification, whether or not an earlier run had collected it.
C30_AtOrBeforeCursorNeverSubmitted ==
    WellFormedCursor(hist.cursorBefore) =>
        \A i \in DOMAIN messages_to_analyze :
            messages_to_analyze[i].timestamp > PersistedInstant(hist.cursorBefore)

\* A second run collects a message of the cursor's minute that the first run
\* had not collected, and newer ones; it has finished without submitting it.
C30_Witness ==
    /\ pc = "done"
    /\ run = 2
    /\ hist.prevCollected # {}
    /\ WellFormedCursor(hist.cursorBefore)
    /\ messages_to_analyze # << >>
    /\ \E m \in Range(all_messages) :
          /\ m \notin hist.prevCollected
          /\ m.timestamp = PersistedInstant(hist.cursorBefore)
          /\ m \notin Range(messages_to_analyze)

(***************************************************************************)
(* The outreach script (scripts/company_outreach.py).  The worksheet is    *)
(* the variable sheet; outreach[e] holds the locals of execution e.        *)
(***************************************************************************)
UpperChar(c) ==
    IF \E i \in DOMAIN LowerChars : LowerChars[i] = c
    THEN UpperChars[CHOOSE i \in DOMAIN LowerChars : LowerChars[i] = c]
    ELSE c

IsLetter(c) ==
    \E i \in DOMAIN LowerChars : LowerChars[i] = c \/ UpperChars[i] = c

\* str.replace(old, new) for one-character old and new
ReplaceChar(s, old, new) == [i \in DOMAIN s |-> IF s[i] = old THEN new ELSE s[i]]

\* str.title(): a letter that follows a non-letter is upper-cased, the others lower-cased
Title(s) ==
    [i \in DOMAIN s |->
        IF i = 1 \/ ~IsLetter(s[i - 1]) THEN UpperChar(s[i]) ELSE LowerChar(s[i])]

\* company_outreach.py:113-114
normalize_header(value) == ReplaceChar(Lower(Strip(value)), " ", "_")

ColDate == << "d","a","t","e" >>
ColCompany == << "c","o","m","p","a","n","y" >>
ColRole == << "r","o","l","e" >>
ColContactEmail == << "c","o","n","t","a","c","t","_","e","m","a","i","l" >>
ColOutreachStatus ==
    << "o","u","t","r","e","a","c","h","_","s","t","a","t","u","s" >>
ColOutreachSentAt ==
    << "o","u","t","r","e","a","c","h","_","s","e","n","t","_","a","t" >>
ColOutreachError ==
    << "o","u","t","r","e","a","c","h","_","e","r","r","o","r" >>

\* company_outreach.py:120
RequiredColumns == << ColOutreachStatus, ColOutreachSentAt, ColOutreachError >>

\* worksheet.row_values(1)
row_values_1(worksheet) == IF worksheet = << >> THEN << >> ELSE worksheet[1]

\* {name: idx + 1 for idx, name in enumerate(names)}: the last index of a name wins
LastIndexOf(names) ==
    [name \in { names[i] : i \in DOMAIN names } |->
        CHOOSE i \in DOMAIN names :
            /\ names[i] = name
            /\ \A j \in DOMAIN names : names[j] = name => j <= i]

IndexOf(names) == CHOOSE r \in { LastIndexOf(n) : n \in { names } } : TRUE

\* [normalize_header(h) for h in headers]
normalized(headers) == [i \in DOMAIN headers |-> normalize_header(headers[i])]

\* company_outreach.py:122-125: the required columns the header row lacks
MissingColumns(norm) ==
    SelectSeq(RequiredColumns, LAMBDA col : \A i \in DOMAIN norm : norm[i] # col)

\* company_outreach.py:127-129: write the header row, return the column index
write_headers(worksheet, headers, norm) ==
    [worksheet |-> IF worksheet = << >> THEN << headers >>
                   ELSE [worksheet EXCEPT ![1] = headers],
     col_idx |-> IndexOf(norm)]

\* company_outreach.py:122-129 for the columns found missing
append_columns(worksheet, headers, norm, missing) ==
    write_headers(worksheet,
                  headers \o [i \in DOMAIN missing |->
                                 Title(ReplaceChar(missing[i], "_", " "))],
                  norm \o missing)

\* company_outreach.py:117-129: [worksheet, col_idx]
ensure_outreach_columns(worksheet) ==
    CHOOSE r \in { append_columns(worksheet, hn[1], hn[2], MissingColumns(hn[2])) :
                      hn \in { << h, normalized(h) >> :
                                  h \in { row_values_1(worksheet) } } } : TRUE

\* company_outreach.py:232-237: one row as a mapping from column name to cell
row_map_of(index, row, row_number) ==
    [cells |-> [col \in DOMAIN index |->
                   IF index[col] <= Len(row) THEN row[index[col]] ELSE << >>],
     row_number |-> row_number]

\* company_outreach.py:226-238
get_records_with_rows(worksheet) ==
    IF worksheet = << >> THEN << >>
    ELSE CHOOSE r \in { [k \in 1..(Len(worksheet) - 1) |->
                           row_map_of(index, worksheet[k + 1], k + 1)] :
                        index \in { IndexOf(normalized(worksheet[1])) } } : TRUE

\* row.get(name, "")
RowGet(row, name) == IF name \in DOMAIN row.cells THEN row.cells[name] ELSE << >>

\* company_outreach.py:164-172
row_unique_key(row) ==
    Lower(Strip(RowGet(row, ColDate))) \o Bar
    \o Lower(Strip(RowGet(row, ColCompany))) \o Bar
    \o Lower(Strip(RowGet(row, ColRole))) \o Bar
    \o Lower(Strip(RowGet(row, ColContactEmail)))

\* company_outreach.py:270-279: is the row a candidate?
is_candidate(row, sent_tracker) ==
    /\ Strip(RowGet(row, ColContactEmail)) # << >>
    /\ Strip(RowGet(row, ColOutreachSentAt)) = << >>
    /\ row_unique_key(row) \notin sent_tracker

\* to_send[: args.limit] when the limit is positive
limited(to_send, limit) ==
    IF limit > 0 /\ limit < Len(to_send) THEN SubSeq(to_send, 1, limit) ELSE to_send

\* company_outreach.py:268-282: the candidates, cut to --limit
candidates(records, sent_tracker, limit) ==
    CHOOSE r \in { limited(to_send, limit) :
                      to_send \in { SelectSeq(records,
                                       LAMBDA row : is_candidate(row, sent_tracker)) } } : TRUE

\* company_outreach.py:241-243: worksheet.update_acell(cell, value)
mark_row(worksheet, row_num, col, value) ==
    [worksheet EXCEPT ![row_num] =
        [c \in 1..(IF col > Len(@) THEN col ELSE Len(@)) |->
            IF c = col THEN value ELSE IF c <= Len(@) THEN @[c] ELSE << >>]]

\* company_outreach.py:151-157
load_sent_tracker(file) == IF file.exists THEN file.keys ELSE {}

\* company_outreach.py:160-161
save_sent_tracker(data) == [exists |-> TRUE, keys |-> data]

StatusSent == << "S","E","N","T" >>
StatusFailed == << "F","A","I","L","E","D" >>
\* datetime.now().strftime(...): some non-empty text
NowText == << "t" >>
\* str(exc)[:450]: some text
ErrText == << "e" >>

IdleExecution ==
    [pc |-> "idle", run |-> 0, limit |-> 0, col_idx |-> << >>, sent_tracker |-> {},
     to_send |-> << >>, pos |-> 0, sent_count |-> 0]

JobMailRemote == [JobMail EXCEPT !.location = << "r" >>]
JobMailB == MkJob(DateText1, << "B" >>, << "q","a" >>, << "e","@","x" >>)

\* Worksheets as main() leaves them: the header row and appended records.
OutreachSheetPool ==
    { << SheetHeaders, JobRow(JobA), JobRow(JobMail) >>,
      << SheetHeaders, JobRow(JobMail), JobRow(JobMailRemote) >>,
      << SheetHeaders, JobRow(JobMail), JobRow(JobMailB) >>,
      << SheetHeaders, JobRow(JobMailSpace) >> }

\* --limit: absent (0) or 1
LimitPool == { 0, 1 }

\* The row the loop of main() is at.
CurrentRow(e) == outreach[e].to_send[outreach[e].pos]

\* for row in to_send: the next row, or past the loop
NextRow(x) ==
    [x EXCEPT !.pos = @ + 1,
              !.pc = IF x.pos + 1 > Len(x.to_send) THEN "save" ELSE "send"]

\* company_outreach.py:246-263: argument parsing, configuration, connectivity,
\* opening the worksheet (any of which may raise) and ensure_outreach_columns.
BeginExecution(e, limit) ==
    /\ run' = run + 1
    /\ \E ok \in BOOLEAN, ensured \in { ensure_outreach_columns(sheet) } :
          IF ok
          THEN /\ sheet' = ensured.worksheet
               /\ outreach' = [outreach EXCEPT ![e] =
                     [IdleExecution EXCEPT !.pc = "tracker", !.run = run + 1,
                                           !.limit = limit,
                                           !.col_idx = ensured.col_idx]]
          ELSE /\ sheet' = sheet
               /\ outreach' = [outreach EXCEPT ![e] =
                     [IdleExecution EXCEPT !.pc = "crashed", !.run = run + 1]]
    /\ UNCHANGED << pc, env, cursorFile, last_processed, all_messages,
                    messages_to_analyze, idx, relevant_jobs, unique_jobs,
                    a_in, a_out, hist >>
    /\ UNCHANGED << sentTrackerFile, outbox, watcher >>
    /\ UNCHANGED scrapeVars

\* The script is started by hand or by a scheduler, one execution after another.
StartRun(e) ==
    /\ run < MaxRuns
    /\ \A o \in DOMAIN outreach : outreach[o].pc \in { "idle", "done", "crashed" }
    /\ \E limit \in LimitPool : BeginExecution(e, limit)

\* main.py:686 and sheet_update_mail_trigger.py:95-97: the script is started
\* without arguments, whatever other execution is under way.
LaunchExecution(e) ==
    /\ outreach[e].pc = "idle"
    /\ BeginExecution(e, 0)

OutreachFrame ==
    /\ UNCHANGED << pc, run, env, cursorFile, last_processed, all_messages,
                    messages_to_analyze, idx, relevant_jobs, unique_jobs,
                    a_in, a_out, hist >>
    /\ UNCHANGED watcher
    /\ UNCHANGED scrapeVars

\* company_outreach.py:265-266
LoadTracker(e) ==
    /\ outreach[e].pc = "tracker"
    /\ outreach' = [outreach EXCEPT ![e].sent_tracker = load_sent_tracker(sentTrackerFile),
                                    ![e].pc = "records"]
    /\ UNCHANGED << sheet, sentTrackerFile, outbox >>
    /\ OutreachFrame

\* company_outreach.py:268-284
ReadRecords(e) ==
    /\ outreach[e].pc = "records"
    /\ \E to_send \in { candidates(get_records_with_rows(sheet),
                                   outreach[e].sent_tracker, outreach[e].limit) } :
          outreach' = [outreach EXCEPT ![e].to_send = to_send,
                                       ![e].pos = 1,
                                       ![e].pc = IF to_send = << >> THEN "save" ELSE "send"]
    /\ UNCHANGED << sheet, sentTrackerFile, outbox >>
    /\ OutreachFrame

\* company_outreach.py:287-314: compose and send the email of the current row;
\* composing or sending may raise, and then nothing was delivered.
SendEmail(e) ==
    /\ outreach[e].pc = "send"
    /\ \E delivered \in BOOLEAN :
          IF delivered
          THEN /\ outbox' = outbox \cup
                     { [by |-> e, run |-> outreach[e].run,
                        row |-> CurrentRow(e).row_number,
                        key |-> row_unique_key(CurrentRow(e))] }
               /\ outreach' = [outreach EXCEPT ![e].pc = "mark_status"]
          ELSE /\ outbox' = outbox
               /\ outreach' = [outreach EXCEPT ![e].pc = "fail_status"]
    /\ UNCHANGED << sheet, sentTrackerFile >>
    /\ OutreachFrame

\* One mark_row call of the try block: it writes the cell, or raises.
MarkStep(e, at, col, value, then) ==
    /\ outreach[e].pc = at
    /\ \E ok \in BOOLEAN :
          IF ok
          THEN /\ sheet' = mark_row(sheet, CurrentRow(e).row_number,
                                    outreach[e].col_idx[col], value)
               /\ outreach' = [outreach EXCEPT ![e] = then]
          ELSE /\ sheet' = sheet
               /\ outreach' = [outreach EXCEPT ![e].pc = "fail_status"]
    /\ UNCHANGED << sentTrackerFile, outbox >>
    /\ OutreachFrame

\* company_outreach.py:316-317
MarkStatus(e) ==
    MarkStep(e, "mark_status", ColOutreachStatus, StatusSent,
             [outreach[e] EXCEPT !.pc = "mark_sent_at"])

\* company_outreach.py:318
MarkSentAt(e) ==
    MarkStep(e, "mark_sent_at", ColOutreachSentAt, NowText,
             [outreach[e] EXCEPT !.pc = "mark_error"])

\* company_outreach.py:319-322: the last mark, then the key enters sent_tracker
MarkError(e) ==
    MarkStep(e, "mark_error", ColOutreachError, << >>,
             NextRow([outreach[e] EXCEPT
                         !.sent_tracker = @ \cup { row_unique_key(CurrentRow(e)) },
                         !.sent_count = @ + 1]))

\* One mark_row call of the except block: it writes the cell, or raises and
\* ends the script.
FailStep(e, at, col, value, then) ==
    /\ outreach[e].pc = at
    /\ \E ok \in BOOLEAN :
          IF ok
          THEN /\ sheet' = mark_row(sheet, CurrentRow(e).row_number,
                                    outreach[e].col_idx[col], value)
               /\ outreach' = [outreach EXCEPT ![e] = then]
          ELSE /\ sheet' = sheet
               /\ outreach' = [outreach EXCEPT ![e].pc = "crashed"]
    /\ UNCHANGED << sentTrackerFile, outbox >>
    /\ OutreachFrame

\* company_outreach.py:323-325
FailStatus(e) ==
    FailStep(e, "fail_status", ColOutreachStatus, StatusFailed,
             [outreach[e] EXCEPT !.pc = "fail_error"])

\* company_outreach.py:326-327
FailError(e) ==
    FailStep(e, "fail_error", ColOutreachError, ErrText, NextRow(outreach[e]))

\* company_outreach.py:329-331: the tracker file is rewritten from the local
\* mapping; a failed write leaves the file as it was or empty.
SaveTracker(e) ==
    /\ outreach[e].pc = "save"
    /\ \/ /\ sentTrackerFile' = save_sent_tracker(outreach[e].sent_tracker)
          /\ outreach' = [outreach EXCEPT ![e].pc = "done"]
       \/ /\ sentTrackerFile' \in { sentTrackerFile, [exists |-> TRUE, keys |-> {}] }
          /\ outreach' = [outreach EXCEPT ![e].pc = "crashed"]
    /\ UNCHANGED << sheet, outbox >>
    /\ OutreachFrame

ExecutionStep(e) ==
    \/ LoadTracker(e)
    \/ ReadRecords(e)
    \/ SendEmail(e)
    \/ MarkStatus(e)
    \/ MarkSentAt(e)
    \/ MarkError(e)
    \/ FailStatus(e)
    \/ FailError(e)
    \/ SaveTracker(e)

OutreachStart(ids) ==
    /\ pc = "outreach"
    /\ run = 0
    /\ env = GoodEnv
    /\ cursorFile = AbsentFile
    /\ sheet \in OutreachSheetPool
    /\ last_processed = NoCursor
    /\ all_messages = << >>
    /\ messages_to_analyze = << >>
    /\ idx = 0
    /\ relevant_jobs = << >>
    /\ unique_jobs = << >>
    /\ a_in = NoAnalysisIn
    /\ a_out = NoAnalysisOut
    /\ hist = NoHist
    /\ ScrapeIdle
    /\ sentTrackerFile = [exists |-> FALSE, keys |-> {}]
    /\ outreach = [e \in ids |-> IdleExecution]
    /\ outbox = {}
    /\ watcher = NoWatcher

(***************************************************************************)
(* SpecOutreach: executions of the outreach script, one after another.     *)
(***************************************************************************)
InitOutreach == OutreachStart({ "manual" })

NextOutreach == \E e \in DOMAIN outreach : StartRun(e) \/ ExecutionStep(e)

SpecOutreach == InitOutreach /\ [][NextOutreach]_vars

(***************************************************************************)
(* SpecOverlap: one execution started by main()'s run_outreach_task and    *)
(* one started by the sheet watcher, their steps interleaved.              *)
(***************************************************************************)
InitOverlap == OutreachStart({ "main", "watcher" })

NextOverlap == \E e \in DOMAIN outreach : LaunchExecution(e) \/ ExecutionStep(e)

SpecOverlap == InitOverlap /\ [][NextOverlap]_vars

(***************************************************************************)
(* Claims about the outreach script (SpecOutreach, SpecOverlap).           *)
(***************************************************************************)
\* C31: within one run of the outreach script at most one email is
\* delivered per outreach key, also when several rows share the key.
C31_OneEmailPerKeyPerRun ==
    \A a, b \in outbox : (a.run = b.run /\ a.key = b.key) => a = b

\* C32: once a run has delivered the email of a row, no other run delivers
\* an email for that row, whatever failed while marking the row or saving
\* the tracker file.
C32_RowEmailedByOneRun ==
    \A a, b \in outbox : a.row = b.row => a.run = b.run

\* C34: when the execution started by main() and the one started by the
\* sheet watcher overlap, no row is emailed by both.
C34_NoRowEmailedByBoth ==
    \A a, b \in outbox : a.row = b.row => a.by = b.by

(***************************************************************************)
(* SpecWatch: the loop of the sheet watcher                                *)
(* (scripts/sheet_update_mail_trigger.py) while the worksheet changes      *)
(* under it.                                                               *)
(***************************************************************************)
MaxLoops == 3

Digits == << "0","1","2","3","4","5","6","7","8","9" >>

\* str(n) for n >= 0
RECURSIVE str_int(_)
str_int(n) ==
    IF n < 10 THEN << Digits[n + 1] >>
    ELSE str_int(n \div 10) \o << Digits[(n % 10) + 1] >>

IsNumeral(s) ==
    /\ s # << >>
    /\ \A i \in DOMAIN s : \E d \in DOMAIN Digits : Digits[d] = s[i]

RECURSIVE NumeralValue(_)
NumeralValue(s) ==
    IF s = << >> THEN 0
    ELSE NumeralValue(SubSeq(s, 1, Len(s) - 1)) * 10
         + (CHOOSE d \in DOMAIN Digits : Digits[d] = s[Len(s)]) - 1

\* state.get(key, default)
StateGet(state, key, default) == IF key \in DOMAIN state THEN state[key] ELSE default

\* sheet_update_mail_trigger.py:123: int(state.get("rows", "0") or 0)
prev_rows_of(state) ==
    IF StateGet(state, "rows", << "0" >>) = << >> THEN [raised |-> FALSE, v |-> 0]
    ELSE IF IsNumeral(StateGet(state, "rows", << "0" >>))
         THEN [raised |-> FALSE, v |-> NumeralValue(StateGet(state, "rows", << "0" >>))]
         ELSE [raised |-> TRUE, v |-> 0]

\* hashlib.sha256 of the encoded rows: a value that differs when the rows differ
sha256_hexdigest(data_rows) == << "sha256", data_rows >>

\* values[1:] if values else []
data_rows_of(values) == IF values = << >> THEN << >> ELSE Tail(values)

\* sheet_update_mail_trigger.py:83-91
sheet_snapshot(worksheet) ==
    [rows |-> str_int(Len(data_rows_of(worksheet))),
     hash |-> sha256_hexdigest(data_rows_of(worksheet))]

\* dict.update
dict_update(state, snap) ==
    [k \in DOMAIN state \cup DOMAIN snap |->
        IF k \in DOMAIN snap THEN snap[k] ELSE state[k]]

\* sheet_update_mail_trigger.py:70-76
load_state(file) == IF file.exists /\ file.valid THEN file.val ELSE << >>

\* sheet_update_mail_trigger.py:79-80
save_state(state) == [exists |-> TRUE, valid |-> TRUE, val |-> state]

\* sheet_update_mail_trigger.py:129-141: does the iteration call run_outreach?
triggers_no_init(first_loop, prev_hash, changed, has_new_rows, send_on_start, curr_rows) ==
    changed /\ has_new_rows

triggers(first_loop, prev_hash, changed, has_new_rows, send_on_start, curr_rows) ==
    IF first_loop /\ prev_hash = << >> THEN send_on_start /\ curr_rows > 0
    ELSE changed /\ has_new_rows

WatchRows == << JobRow(JobMail), JobRow(JobMailB) >>

\* Worksheets the watcher may find: no rows at all, the header only, records.
WatchSheetPool ==
    { << >>, << SheetHeaders >>,
      << SheetHeaders, WatchRows[1] >>, << SheetHeaders, WatchRows[2] >>,
      << SheetHeaders, WatchRows[1], WatchRows[2] >> }

\* data/sheet_watch_state.json: absent, not JSON, a saved snapshot, or a
\* mapping with one of the two keys.
StateFilePool ==
    { NoStateFile, [exists |-> TRUE, valid |-> FALSE, val |-> << >>] }
    \cup { save_state(sheet_snapshot(w)) : w \in WatchSheetPool }
    \cup { save_state([hash |-> sheet_snapshot(<< SheetHeaders, WatchRows[1] >>).hash]),
           save_state([rows |-> << "1" >>]) }

\* What one execution of the outreach script may leave of the worksheet: as it
\* was, with the outreach columns, or with the first record marked as sent.
outcomes_of(worksheet, ensured) ==
    { worksheet, ensured.worksheet }
    \cup { mark_row(ensured.worksheet, k, ensured.col_idx[ColOutreachSentAt], NowText) :
              k \in { j \in { 2 } : Len(worksheet) >= j } }

OutreachOutcomes(worksheet) ==
    UNION { outcomes_of(worksheet, ensured) :
               ensured \in { ensure_outreach_columns(worksheet) } }

InitWatch ==
    /\ pc = "watch_loop"
    /\ run = 0
    /\ env = GoodEnv
    /\ cursorFile = AbsentFile
    /\ sheet \in WatchSheetPool
    /\ last_processed = NoCursor
    /\ all_messages = << >>
    /\ messages_to_analyze = << >>
    /\ idx = 0
    /\ relevant_jobs = << >>
    /\ unique_jobs = << >>
    /\ a_in = NoAnalysisIn
    /\ a_out = NoAnalysisOut
    /\ hist = NoHist
    /\ ScrapeIdle
    /\ sentTrackerFile = [exists |-> FALSE, keys |-> {}]
    /\ outreach = << >>
    /\ outbox = {}
    /\ \E file \in StateFilePool, send_on_start \in BOOLEAN :
          watcher = [NoWatcher EXCEPT !.state = load_state(file), !.file = file,
                                      !.send_on_start = send_on_start]

WatchFrame ==
    /\ UNCHANGED << pc, run, env, cursorFile, last_processed, all_messages,
                    messages_to_analyze, idx, relevant_jobs, unique_jobs,
                    a_in, a_out, hist >>
    /\ UNCHANGED << sentTrackerFile, outreach, outbox >>
    /\ UNCHANGED scrapeVars

\* An iteration that raised before it decided anything (sheet_snapshot, or
\* int() of the stored row count): only the except clause runs.
RaisedEarly ==
    /\ watcher' = [watcher EXCEPT
          !.iter = @ + 1,
          !.last = [NoIteration EXCEPT !.n = watcher.iter + 1, !.raised = "early",
                                       !.first_loop = watcher.first_loop,
                                       !.prev_state = watcher.state]]
    /\ sheet' = sheet

\* sheet_update_mail_trigger.py:122-149 for a snapshot snap and stored count
\* prev_rows: decide, run the outreach script when triggered (it returns rc),
\* then update and save the state (the save may raise).
Decided(snap, prev_rows, rc, save_ok) ==
    \E trig \in { triggers(watcher.first_loop,
                           StateGet(watcher.state, "hash", << >>),
                           snap.hash # StateGet(watcher.state, "hash", << >>),
                           NumeralValue(snap.rows) > prev_rows,
                           watcher.send_on_start,
                           NumeralValue(snap.rows)) } :
       /\ sheet' \in IF trig THEN OutreachOutcomes(sheet) ELSE { sheet }
       /\ \E file \in IF save_ok THEN { save_state(dict_update(watcher.state, snap)) }
                      ELSE { watcher.file, [exists |-> TRUE, valid |-> FALSE, val |-> << >>] } :
             watcher' = [watcher EXCEPT
                 !.state = dict_update(@, snap),
                 !.file = file,
                 !.first_loop = IF save_ok THEN FALSE ELSE @,
                 !.iter = @ + 1,
                 !.last = [n |-> watcher.iter + 1,
                           raised |-> IF save_ok THEN "no" ELSE "save",
                           triggered |-> trig,
                           first_loop |-> watcher.first_loop,
                           prev_state |-> watcher.state,
                           snap |-> snap,
                           rc |-> IF trig THEN rc ELSE 0]]

\* sheet_update_mail_trigger.py:119-153: one iteration of the while loop
WatchIteration ==
    /\ pc = "watch_loop"
    /\ watcher.iter < MaxLoops
    /\ \E snap \in { sheet_snapshot(sheet) }, prev \in { prev_rows_of(watcher.state) } :
       \E snapshot_ok \in BOOLEAN, save_ok \in BOOLEAN, rc \in { 0, 1 } :
          IF ~snapshot_ok \/ prev.raised
          THEN RaisedEarly
          ELSE Decided(snap, prev.v, rc, save_ok)
    /\ WatchFrame

\* While the watcher sleeps the worksheet is changed by main() or by hand.
SheetChanges ==
    /\ pc = "watch_loop"
    /\ \E w \in WatchSheetPool : w # sheet /\ sheet' = w
    /\ UNCHANGED watcher
    /\ WatchFrame

NextWatch == WatchIteration \/ SheetChanges

SpecWatch == InitWatch /\ [][NextWatch]_vars

(***************************************************************************)
(* Claims about the sheet watcher (SpecWatch).                             *)
(***************************************************************************)
\* The latest iteration compared its snapshot with the stored state and saw
\* another hash and more data rows.
SawNewRows ==
    /\ watcher.last.snap.hash # StateGet(watcher.last.prev_state, "hash", << >>)
    /\ NumeralValue(watcher.last.snap.rows) > prev_rows_of(watcher.last.prev_state).v

\* The latest iteration completed without raising.
Completed == watcher.last.n > 0 /\ watcher.last.raised = "no"

\* After a completed iteration the stored state is the iteration's snapshot.
StoredIsSnapshot ==
    /\ watcher.state = watcher.last.snap
    /\ watcher.file = save_state(watcher.last.snap)

\* C33 as stated: the initial iteration is the first iteration of the loop,
\* and it has no stored state when no hash is stored.
C33_AsStated ==
    Completed =>
        /\ IF watcher.last.n = 1
              /\ StateGet(watcher.last.prev_state, "hash", << >>) = << >>
           THEN watcher.last.triggered =>
                   (watcher.send_on_start /\ NumeralValue(watcher.last.snap.rows) >= 1)
           ELSE watcher.last.triggered <=> SawNewRows
        /\ StoredIsSnapshot

\* The iteration ran before any iteration had completed and found no stored hash.
Initialising ==
    /\ watcher.last.first_loop
    /\ StateGet(watcher.last.prev_state, "hash", << >>) = << >>

\* C33 (amended): an iteration that runs before any iteration has completed
\* and finds no stored hash triggers the outreach script only when
\* send-on-start is enabled and the sheet has a data row; every other
\* iteration triggers it exactly when the hash differs from the stored one
\* and the data-row count is greater than the stored count; after every
\* iteration that does not raise the stored state is the snapshot, whatever
\* the outreach return code.
C33_TriggerRule ==
    Completed =>
        /\ IF Initialising
           THEN watcher.last.triggered =>
                   (watcher.send_on_start /\ NumeralValue(watcher.last.snap.rows) >= 1)
           ELSE watcher.last.triggered <=> SawNewRows
        /\ StoredIsSnapshot

\* A later iteration saw new rows, ran the outreach script, which failed,
\* and completed.
C33_Witness ==
    /\ Completed
    /\ watcher.last.n >= 2
    /\ ~watcher.last.first_loop
    /\ watcher.last.triggered
    /\ watcher.last.rc = 1
    /\ watcher.state = watcher.last.snap

====
